---- MODULE Spec2Model ----
(***************************************************************************)
(* Offline CSV data-access layer (services/io_csv.py,                      *)
(* services/offline_store.py and the sibling accessors) and the UN DESA    *)
(* reshape of scripts/fetch_migration_inout.py.                            *)
(*                                                                         *)
(* A CSV text is a sequence of lines; a line is a sequence of tokens; a    *)
(* token is either a separator character or an atomic piece of cell text   *)
(* that holds no separator.  A field (cell, column name) is the sequence   *)
(* of tokens between two separators, so a line split on the wrong          *)
(* separator yields one field that still holds the other separators.       *)
(***************************************************************************)
EXTENDS Integers, Sequences, FiniteSets, TLC

\* ------------------------------------------------------------------ bounds
MaxRows == 2
MaxClock == 3

\* ------------------------------------------------------------- vocabulary
COMMA == ","
SEMI == ";"
TAB == "TAB"
BOMCH == "BOM"
MOJIBOM == "MOJIBOM"
SPACE == " "
Seps == {COMMA, SEMI, TAB}
NA == <<>>

Encodings == {"utf-8", "utf-8-sig", "utf-16"}

RECURSIVE SeqToSet(_)
SeqToSet(s) == IF s = <<>> THEN {} ELSE {Head(s)} \cup SeqToSet(Tail(s))

IndexOf(s, x) == CHOOSE i \in 1..Len(s) : s[i] = x /\ \A j \in 1..(i-1) : s[j] # x

\* ------------------------------------------------------------ CSV writing
\* csv.writer / DataFrame.to_csv: the cells of a row joined by the separator
RECURSIVE Join(_, _)
Join(fields, sep) ==
  IF fields = <<>> THEN <<>>
  ELSE IF Len(fields) = 1 THEN fields[1]
  ELSE fields[1] \o <<sep>> \o Join(Tail(fields), sep)

to_csv(table, sep) ==
  <<Join(table.cols, sep)>> \o [i \in 1..Len(table.rows) |-> Join(table.rows[i], sep)]

\* the bytes of a text under an encoding: the byte-order mark written and
\* whether every character takes two bytes (NUL high bytes)
Encode(lines, enc) ==
  [bom |-> IF enc = "utf-8-sig" THEN "utf8" ELSE IF enc = "utf-16" THEN "utf16" ELSE "none",
   wide |-> (enc = "utf-16"),
   lines |-> lines]

NoFile == [exists |-> FALSE, bom |-> "none", wide |-> FALSE, lines |-> <<>>]
FileOf(bytes) == [exists |-> TRUE, bom |-> bytes.bom, wide |-> bytes.wide, lines |-> bytes.lines]

\* ------------------------------------------------------------ CSV reading
Err == [ok |-> FALSE]
Frame(cols, rows) == [ok |-> TRUE, cols |-> cols, rows |-> rows]

\* bytes.decode(enc): Err on an invalid byte sequence, else the lines, with
\* the mark left in front of the first line when the codec does not strip it
Decode(f, enc) ==
  IF enc \in {"utf-8", "utf-8-sig"} THEN
     IF f.wide \/ f.bom = "utf16" THEN Err
     ELSE IF f.bom = "utf8" /\ enc = "utf-8" /\ f.lines # <<>>
          THEN [ok |-> TRUE, lines |-> <<(<<BOMCH>> \o f.lines[1])>> \o Tail(f.lines)]
          ELSE [ok |-> TRUE, lines |-> f.lines]
  ELSE IF enc = "utf-16" THEN
     IF f.wide /\ f.bom = "utf16" THEN [ok |-> TRUE, lines |-> f.lines] ELSE Err
  ELSE IF enc = "utf-16le" THEN
     IF f.wide /\ f.lines # <<>>
     THEN [ok |-> TRUE, lines |-> <<(<<BOMCH>> \o f.lines[1])>> \o Tail(f.lines)]
     ELSE Err
  ELSE IF enc \in {"cp1252", "latin1"} THEN
     IF f.wide THEN Err
     ELSE IF f.bom = "utf8" /\ f.lines # <<>>
          THEN [ok |-> TRUE, lines |-> <<(<<MOJIBOM>> \o f.lines[1])>> \o Tail(f.lines)]
          ELSE [ok |-> TRUE, lines |-> f.lines]
  ELSE Err

RECURSIVE SplitAcc(_, _, _, _)
SplitAcc(line, sep, cur, acc) ==
  IF line = <<>> THEN Append(acc, cur)
  ELSE IF Head(line) = sep THEN SplitAcc(Tail(line), sep, <<>>, Append(acc, cur))
  ELSE SplitAcc(Tail(line), sep, Append(cur, Head(line)), acc)

Split(line, sep) == SplitAcc(line, sep, <<>>, <<>>)

\* a line the parser skips: no field, or one field of white space only
IsBlankLine(line) == \A i \in 1..Len(line) : line[i] = SPACE

RECURSIVE DropBlank(_)
DropBlank(lines) ==
  IF lines = <<>> THEN <<>>
  ELSE IF IsBlankLine(Head(lines)) THEN DropBlank(Tail(lines))
  ELSE <<Head(lines)>> \o DropBlank(Tail(lines))

StripBom(line) == IF line # <<>> /\ Head(line) = BOMCH THEN Tail(line) ELSE line

PadRow(fields, k, n) ==
  [j \in 1..n |-> IF k + j <= Len(fields) THEN fields[k + j] ELSE NA]

\* the parser proper, on decoded lines, for one separator: header from the
\* first non-blank line; a first data row longer than the header makes its
\* leading fields an implicit index; a row longer than that is a ParserError;
\* a shorter row is padded with nulls
ImplicitIndex(n, body) ==
  IF body # <<>> /\ Len(body[1]) > n THEN Len(body[1]) - n ELSE 0

ParseRows(header, body, k) ==
  IF \E i \in 1..Len(body) : Len(body[i]) > Len(header) + k THEN Err
  ELSE Frame(header, [i \in 1..Len(body) |-> PadRow(body[i], k, Len(header))])

ParseSplit(header, body) == ParseRows(header, body, ImplicitIndex(Len(header), body))

ParseNonBlank(nb, sep) ==
  IF nb = <<>> THEN Err
  ELSE ParseSplit(Split(StripBom(nb[1]), sep),
                  [i \in 1..(Len(nb) - 1) |-> Split(nb[i + 1], sep)])

ParseLines(lines, sep) == ParseNonBlank(DropBlank(lines), sep)

\* csv.Sniffer on the first line, as pandas calls it for sep=None: the first
\* of ',', tab, ';' that occurs in the line
SniffSep(line) ==
  IF COMMA \in SeqToSet(line) THEN COMMA
  ELSE IF TAB \in SeqToSet(line) THEN TAB
  ELSE IF SEMI \in SeqToSet(line) THEN SEMI
  ELSE "other"

\* pd.read_csv(bytes, encoding=enc, sep=sep); sep = "sniff" stands for sep=None
ParseDecoded(d, sep) ==
  IF ~d.ok THEN Err
  ELSE IF sep = "sniff" THEN
         IF DropBlank(d.lines) = <<>> THEN Err
         ELSE ParseLines(d.lines, SniffSep(StripBom(DropBlank(d.lines)[1])))
       ELSE ParseLines(d.lines, sep)

pd_read_csv(f, enc, sep) == ParseDecoded(Decode(f, enc), sep)

\* raw.strip() is empty: no mark and nothing but white space
IsBlankRaw(f) == f.bom = "none" /\ ~f.wide /\ \A i \in 1..Len(f.lines) : IsBlankLine(f.lines[i])

\* pd.DataFrame(columns=cols or None)
EmptyFrame(cols) == Frame(cols, <<>>)

\* the result of a call: a frame handed back, or an exception that escaped
Ret(frame) == [raised |-> FALSE, exc |-> "", frame |-> frame]
Raise(exc) == [raised |-> TRUE, exc |-> exc, frame |-> EmptyFrame(<<>>)]

\* first attempt of a list of (encoding, separator) attempts that parses
RECURSIVE FirstOk(_, _)
FirstOk(f, attempts) ==
  IF attempts = <<>> THEN Err
  ELSE LET r == pd_read_csv(f, attempts[1][1], attempts[1][2]) IN
       IF r.ok THEN r ELSE FirstOk(f, Tail(attempts))

\* df[c] = pd.NA for every missing c, then df = df[expected_cols]
ReorderToExpected(df, expected) ==
  Frame(expected,
        [i \in 1..Len(df.rows) |->
           [j \in 1..Len(expected) |->
              IF expected[j] \in SeqToSet(df.cols)
              THEN df.rows[i][IndexOf(df.cols, expected[j])]
              ELSE NA]])

\* services/io_csv.py read_csv_safe; expected = <<>> stands for None
read_csv_safe(f, expected) ==
  IF ~f.exists THEN Ret(EmptyFrame(expected))
  ELSE IF IsBlankRaw(f) THEN Ret(EmptyFrame(expected))
  ELSE LET df1 == FirstOk(f, <<(<<"utf-8", SEMI>>), (<<"utf-8", COMMA>>), (<<"utf-8", TAB>>)>>)
           df == IF df1.ok THEN df1 ELSE pd_read_csv(f, "utf-8", "sniff")
       IN IF ~df.ok THEN Ret(EmptyFrame(expected))
          ELSE IF expected # <<>> THEN Ret(ReorderToExpected(df, expected))
          ELSE Ret(df)

\* services/io_csv.py read_csv_safe_any
read_csv_safe_any(f) ==
  IF ~f.exists THEN Ret(EmptyFrame(<<>>))
  ELSE IF IsBlankRaw(f) THEN Ret(EmptyFrame(<<>>))
  ELSE LET df1 == FirstOk(f, <<(<<"utf-8", SEMI>>), (<<"utf-8", COMMA>>), (<<"utf-8", TAB>>)>>)
           df == IF df1.ok THEN df1 ELSE pd_read_csv(f, "utf-8", "sniff")
       IN IF ~df.ok THEN Ret(EmptyFrame(<<>>)) ELSE Ret(df)

\* _read_csv_safe with the second attempt outside its try/except
_read_csv_safe_uncaught(f, expected) ==
  IF ~f.exists THEN Ret(EmptyFrame(expected))
  ELSE LET df == FirstOk(f, <<(<<"utf-8", COMMA>>), (<<"utf-8", SEMI>>)>>)
       IN IF ~df.ok THEN Raise("ParserError")
          ELSE IF expected # <<>> THEN Ret(ReorderToExpected(df, expected))
          ELSE Ret(df)

\* services/offline_store.py _read_csv_safe: default separator, ';' only
\* when the default raised
_read_csv_safe(f, expected) ==
  IF ~f.exists THEN Ret(EmptyFrame(expected))
  ELSE LET df == FirstOk(f, <<(<<"utf-8", COMMA>>), (<<"utf-8", SEMI>>)>>)
       IN IF ~df.ok THEN Ret(EmptyFrame(expected))
          ELSE IF expected # <<>> THEN Ret(ReorderToExpected(df, expected))
          ELSE Ret(df)

\* the encodings tried, in order: the UTF-16 family first when a UTF-16 mark
\* or a NUL byte is seen
EncsFor(f) ==
  (IF f.bom = "utf16" \/ f.wide THEN <<"utf-16", "utf-16le", "utf-16be">> ELSE <<>>)
  \o <<"utf-8-sig", "utf-8", "cp1252", "latin1">>

\* the loop over the separators with ';' in front
AttemptsOf_semi_first(encs) ==
  [n \in 1..(3 * Len(encs)) |->
     <<encs[((n - 1) \div 3) + 1], <<SEMI, COMMA, TAB>>[((n - 1) % 3) + 1]>>]

RECURSIVE AttemptsOf(_)
AttemptsOf(encs) ==
  IF encs = <<>> THEN <<>>
  ELSE <<(<<Head(encs), COMMA>>), (<<Head(encs), SEMI>>), (<<Head(encs), TAB>>)>>
       \o AttemptsOf(Tail(encs))

\* services/offline_store.py _read_csv_safe_any
_read_csv_safe_any(f) ==
  IF ~f.exists THEN Ret(EmptyFrame(<<>>))
  ELSE IF IsBlankRaw(f) THEN Ret(EmptyFrame(<<>>))
  ELSE LET df1 == FirstOk(f, AttemptsOf(EncsFor(f)))
           df == IF df1.ok THEN df1 ELSE pd_read_csv(f, "utf-8", "sniff")
       IN IF ~df.ok THEN Ret(EmptyFrame(<<>>)) ELSE Ret(df)

\* the attempts a reader makes on a file, the last one with a sniffed separator
AttemptsBy(fn, f) ==
  IF fn \in {"read_csv_safe", "read_csv_safe_any"}
  THEN <<(<<"utf-8", SEMI>>), (<<"utf-8", COMMA>>), (<<"utf-8", TAB>>), (<<"utf-8", "sniff">>)>>
  ELSE IF fn = "_read_csv_safe" THEN <<(<<"utf-8", COMMA>>), (<<"utf-8", SEMI>>)>>
  ELSE AttemptsOf(EncsFor(f)) \o <<(<<"utf-8", "sniff">>)>>

\* the attempts a loop of try / return / except makes: every one up to and
\* with the first that parses
RECURSIVE Tried(_, _)
Tried(f, attempts) ==
  IF attempts = <<>> THEN <<>>
  ELSE IF pd_read_csv(f, attempts[1][1], attempts[1][2]).ok THEN <<attempts[1]>>
  ELSE <<attempts[1]>> \o Tried(f, Tail(attempts))

\* ... by a reader: none for a missing path and, but for _read_csv_safe,
\* for a blank file
TriedBy(fn, f) ==
  IF ~f.exists THEN <<>>
  ELSE IF fn # "_read_csv_safe" /\ IsBlankRaw(f) THEN <<>>
  ELSE Tried(f, AttemptsBy(fn, f))


\* ================================================ filtered chunked reader
ChunkRows == 200000
LruMaxsize == 256

\* str.upper() on the cell texts the model uses
UpperTok(t) ==
  CASE t = "esp" -> "ESP" [] t = "prt" -> "PRT" [] t = "fra" -> "FRA" [] t = "nan" -> "NAN"
    [] t = "es" -> "ES"
    [] OTHER -> t
Upper(cell) == [i \in 1..Len(cell) |-> UpperTok(cell[i])]

\* Series.astype(str): a null prints as "nan"
AsStr(cell) == IF cell = NA THEN <<"nan">> ELSE cell

\* st_size: one unit per token and per line break
RECURSIVE Size(_)
Size(lines) == IF lines = <<>> THEN 0 ELSE Len(Head(lines)) + 1 + Size(Tail(lines))

\* a file with its stat
StatFile(lines, mtime) ==
  [exists |-> TRUE, bom |-> "none", wide |-> FALSE, lines |-> lines,
   mtime |-> mtime, size |-> Size(lines)]
Missing == [exists |-> FALSE, bom |-> "none", wide |-> FALSE, lines |-> <<>>, mtime |-> -1, size |-> -1]

\* file_sig(path): (st_mtime_ns, st_size), (None, None) for a missing file
file_sig(f) == IF f.exists THEN <<f.mtime, f.size>> ELSE <<-1, -1>>

KeepIdx(cols, keep) == SelectSeq([i \in 1..Len(cols) |-> i], LAMBDA i : cols[i] \in keep)

\* the columns of usecols, in the order of the file
Pick(df, idx) ==
  Frame([j \in 1..Len(idx) |-> df.cols[idx[j]]],
        [i \in 1..Len(df.rows) |-> [j \in 1..Len(idx) |-> df.rows[i][idx[j]]]])

Project(df, usecols) == Pick(df, KeepIdx(df.cols, SeqToSet(usecols)))

\* the exception pd.read_csv(path, sep=sep, usecols=usecols, encoding=enc)
\* raises, "" when none: no columns to parse, undecodable, ragged rows, or a
\* usecols name that is not a column of the file
ExcOf(df, usecols) ==
  IF ~df.ok THEN "ParserError"
  ELSE IF usecols # <<>> /\ ~(SeqToSet(usecols) \subseteq SeqToSet(df.cols)) THEN "ValueError"
  ELSE ""

ReadExc(f, enc, sep, usecols) == ExcOf(pd_read_csv(f, enc, sep), usecols)

Selected(df, usecols) == IF usecols = <<>> THEN df ELSE Project(df, usecols)

ReadFrame(f, enc, sep, usecols) == Selected(pd_read_csv(f, enc, sep), usecols)

\* the chunks of a chunksize=n iteration; a file without data rows yields
\* one empty chunk
RECURSIVE Chunks(_, _)
Chunks(rows, n) ==
  IF rows = <<>> THEN <<>>
  ELSE IF Len(rows) <= n THEN <<rows>>
  ELSE <<SubSeq(rows, 1, n)>> \o Chunks(SubSeq(rows, n + 1, Len(rows)), n)

ChunksOf(rows, n) == IF rows = <<>> THEN << <<>> >> ELSE Chunks(rows, n)

RECURSIVE Flatten(_)
Flatten(ss) == IF ss = <<>> THEN <<>> ELSE Head(ss) \o Flatten(Tail(ss))

\* the loop of read_csv_filtered: per chunk, the rows whose iso3 cell equals
\* the target after upper-casing; a chunk without a match is not kept
RECURSIVE FilterChunks(_, _, _, _)
Matching(chunk, cols, col_iso3, iso3u) ==
  IF col_iso3 \in SeqToSet(cols)
  THEN SelectSeq(chunk, LAMBDA r : Upper(AsStr(r[IndexOf(cols, col_iso3)])) = iso3u)
  ELSE <<>>

NonEmpty(m) == IF m # <<>> THEN <<m>> ELSE <<>>

FilterChunks(chunks, cols, col_iso3, iso3u) ==
  IF chunks = <<>> THEN <<>>
  ELSE NonEmpty(Matching(Head(chunks), cols, col_iso3, iso3u))
       \o FilterChunks(Tail(chunks), cols, col_iso3, iso3u)

\* pd.concat(parts) if parts, else pd.DataFrame(columns=usecols or [])
Concat(cols, kept, usecols) ==
  IF kept # <<>> THEN Ret(Frame(cols, Flatten(kept))) ELSE Ret(EmptyFrame(usecols))

FilterFrame(df, a, chunksize) ==
  Concat(df.cols,
         FilterChunks(ChunksOf(df.rows, chunksize), df.cols, a.col_iso3, Upper(a.iso3)),
         a.usecols)

\* the separator in effect: ';' unless the caller passes one
SepArg(a) == IF a.sep = "None" THEN SEMI ELSE a.sep

RaiseOrFilter(exc, f, a, chunksize) ==
  IF exc # "" THEN Raise(exc)
  ELSE FilterFrame(ReadFrame(f, "utf-8", SepArg(a), a.usecols), a, chunksize)

\* pandas' check of the reader options before it opens the file: an option
\* of the C parser set to other than its default (low_memory defaults to
\* True) is rejected for the python engine
OptionExc(engine, low_memory) ==
  IF engine # "c" /\ ~low_memory THEN "ValueError" ELSE ""

\* the body of read_csv_filtered (engine="python", low_memory=False) for a
\* chunk size; a.usecols = <<>> is None
read_csv_filtered_body(f, a, chunksize) ==
  IF ~f.exists THEN Ret(EmptyFrame(a.usecols))
  ELSE IF OptionExc("python", FALSE) # "" THEN Raise(OptionExc("python", FALSE))
  ELSE RaiseOrFilter(ReadExc(f, "utf-8", SepArg(a), a.usecols), f, a, chunksize)

\* functools.lru_cache hashes every argument: a list or a dict is unhashable
Hashable(a) == a.usecolsKind # "list" /\ a.dtypeKind # "dict"

CacheIdx(cache, a) == CHOOSE i \in 1..Len(cache) : cache[i].key = a
InCache(cache, a) == \E i \in 1..Len(cache) : cache[i].key = a
RemoveAt(s, i) == SubSeq(s, 1, i - 1) \o SubSeq(s, i + 1, Len(s))
Evict(cache) == IF Len(cache) > LruMaxsize THEN Tail(cache) ELSE cache

\* read_csv_filtered as decorated with lru_cache(maxsize=256): the result,
\* the cache afterwards (least recently used first), whether the file was read
CacheHit(cache, i) ==
  [res |-> Ret(cache[i].val), cache |-> Append(RemoveAt(cache, i), cache[i]),
   scanned |-> FALSE]

CacheMiss(cache, f, a, r) ==
  [res |-> r,
   cache |-> IF r.raised THEN cache ELSE Evict(Append(cache, [key |-> a, val |-> r.frame])),
   scanned |-> f.exists /\ OptionExc("python", FALSE) = ""]

read_csv_filtered(cache, f, a) ==
  IF ~Hashable(a) THEN [res |-> Raise("TypeError"), cache |-> cache, scanned |-> FALSE]
  ELSE IF InCache(cache, a) THEN CacheHit(cache, CacheIdx(cache, a))
  ELSE CacheMiss(cache, f, a, read_csv_filtered_body(f, a, ChunkRows))

\* ------------------------------------------------------ frame operations
NumToks == {"0", "1.0", "2.0", "100", "101", "102", "103", "104", "1990", "2000", "2020"}
TokOrder ==
  <<"0", "1.0", "2.0", "100", "101", "102", "103", "104", "1990", "2000", "2020",
    "ESP", "FRA", "PRT", "esp", "r1", "r2", "r3", "r4">>

\* pd.to_numeric(errors="coerce"): a text that is no number becomes null
ToNumeric(cell) == IF Len(cell) = 1 /\ cell[1] \in NumToks THEN cell ELSE NA

\* df[col] = F(df[col])
MapCol(df, col, F(_)) ==
  IF col \notin SeqToSet(df.cols) THEN df
  ELSE LET k == IndexOf(df.cols, col) IN
       Frame(df.cols,
             [i \in 1..Len(df.rows) |->
                [j \in 1..Len(df.cols) |-> IF j = k THEN F(df.rows[i][j]) ELSE df.rows[i][j]]])

\* the sort position of a cell: numbers by value, texts by code point, nulls last
RankOf(cell) ==
  IF cell = NA \/ cell[1] \notin SeqToSet(TokOrder) THEN Len(TokOrder) + 1
  ELSE IndexOf(TokOrder, cell[1])

SortKey(row, cols, by) == [j \in 1..Len(by) |-> RankOf(row[IndexOf(cols, by[j])])]

RECURSIVE LexLeq(_, _)
LexLeq(k1, k2) ==
  IF k1 = <<>> THEN TRUE
  ELSE IF Head(k1) < Head(k2) THEN TRUE
  ELSE IF Head(k1) > Head(k2) THEN FALSE
  ELSE LexLeq(Tail(k1), Tail(k2))

RECURSIVE InsertSorted(_, _, _, _)
InsertSorted(sorted, r, cols, by) ==
  IF sorted = <<>> THEN <<r>>
  ELSE IF LexLeq(SortKey(Head(sorted), cols, by), SortKey(r, cols, by))
       THEN <<Head(sorted)>> \o InsertSorted(Tail(sorted), r, cols, by)
       ELSE <<r>> \o sorted

RECURSIVE SortRows(_, _, _)
SortRows(rows, cols, by) ==
  IF rows = <<>> THEN <<>>
  ELSE InsertSorted(SortRows(SubSeq(rows, 1, Len(rows) - 1), cols, by),
                    rows[Len(rows)], cols, by)

\* df.sort_values(by).reset_index(drop=True), equal keys in their old order
sort_values(df, by) == Frame(df.cols, SortRows(df.rows, df.cols, by))

\* df.dropna(subset=[col])
dropna(df, col) ==
  Frame(df.cols, SelectSeq(df.rows, LAMBDA r : r[IndexOf(df.cols, col)] # NA))

\* ------------------------------------------------- per-entity accessors
Col(name) == <<name>>
CITIES == "cities_all.csv"
UNESCO == "unesco_all.csv"
MIG_INOUT == "migration_inout.csv"
MIG_TS == "migration_timeseries.csv"

Args(path, iso3, usecols, kind, dtypeKind, sep, sig) ==
  [path |-> path, iso3 |-> iso3, col_iso3 |-> Col("iso3"), usecols |-> usecols,
   usecolsKind |-> kind, dtypeKind |-> dtypeKind, sep |-> sep, sig |-> sig]

CitiesCols == <<Col("iso3"), Col("city"), Col("admin"), Col("is_capital"), Col("population"), Col("year")>>
UnescoCols == <<Col("iso3"), Col("site"), Col("site_qid"), Col("year"), Col("lat"), Col("lon"), Col("category")>>
MigInoutCols == <<Col("iso3"), Col("year"), Col("immigrants"), Col("emigrants")>>
MigTsCols == <<Col("iso3"), Col("indicator"), Col("year"), Col("value")>>

\* what an accessor does with the outcome c of read_csv_filtered: an
\* exception propagates, an empty frame is returned as it is
After(c, frame) == [c EXCEPT !.res = Ret(frame)]

\* services/cities.py cities_for_iso3, after the read
cities_tidy(c) ==
  IF c.res.raised \/ c.res.frame.rows = <<>> THEN c
  ELSE After(c, sort_values(MapCol(c.res.frame, Col("year"), ToNumeric),
                            <<Col("year"), Col("city")>>))

\* services/cities.py cities_for_iso3
cities_for_iso3(cache, f, iso3) ==
  cities_tidy(read_csv_filtered(cache, f,
                Args(CITIES, iso3, CitiesCols, "list", "None", "None", file_sig(f))))

\* services/unesco.py unesco_for_iso3, after the read
unesco_tidy(c) ==
  IF c.res.raised \/ c.res.frame.rows = <<>> THEN c
  ELSE After(c, sort_values(
                  MapCol(MapCol(MapCol(c.res.frame, Col("year"), ToNumeric),
                                Col("lat"), ToNumeric), Col("lon"), ToNumeric),
                  <<Col("year"), Col("site")>>))

\* services/unesco.py unesco_for_iso3
unesco_for_iso3(cache, f, iso3) ==
  unesco_tidy(read_csv_filtered(cache, f,
                Args(UNESCO, iso3, UnescoCols, "list", "None", "None", file_sig(f))))

\* services/migration.py migration_inout_for_iso3, after the read
migration_tidy(c) ==
  IF c.res.raised \/ c.res.frame.rows = <<>> THEN c
  ELSE After(c, sort_values(
                  dropna(MapCol(MapCol(MapCol(c.res.frame, Col("year"), ToNumeric),
                                       Col("immigrants"), ToNumeric),
                                Col("emigrants"), ToNumeric), Col("year")),
                  <<Col("year")>>))

\* services/migration.py migration_inout_for_iso3
migration_inout_for_iso3(cache, f, iso3) ==
  migration_tidy(read_csv_filtered(cache, f,
                   Args(MIG_INOUT, Upper(iso3), MigInoutCols, "list", "dict", "None",
                        file_sig(f))))

\* services/offline_store.py _filter_iso3_csv: default separator, the iso3
\* cells upper-cased in place, every chunk kept
RECURSIVE UpperFilterChunks(_, _, _)
UpperCol(df) == MapCol(df, Col("iso3"), LAMBDA c : Upper(AsStr(c)))

WhereIso3(df, iso3u) ==
  SelectSeq(df.rows, LAMBDA r : r[IndexOf(df.cols, Col("iso3"))] = iso3u)

UpperFilterChunks(chunks, cols, iso3u) ==
  IF chunks = <<>> THEN <<>>
  ELSE <<WhereIso3(UpperCol(Frame(cols, Head(chunks))), iso3u)>>
       \o UpperFilterChunks(Tail(chunks), cols, iso3u)

UpperFilterFrame(df, iso3, chunksize) ==
  IF Col("iso3") \notin SeqToSet(df.cols) THEN Raise("KeyError")
  ELSE Ret(Frame(df.cols,
                 Flatten(UpperFilterChunks(ChunksOf(df.rows, chunksize),
                                           df.cols, Upper(iso3)))))

RaiseOrUpperFilter(exc, f, iso3, usecols, chunksize) ==
  IF exc # "" THEN Raise(exc)
  ELSE UpperFilterFrame(ReadFrame(f, "utf-8", COMMA, usecols), iso3, chunksize)

_filter_iso3_csv(f, iso3, usecols, chunksize) ==
  IF ~f.exists THEN Ret(EmptyFrame(usecols))
  ELSE IF OptionExc("c", FALSE) # "" THEN Raise(OptionExc("c", FALSE))
  ELSE RaiseOrUpperFilter(ReadExc(f, "utf-8", COMMA, usecols), f, iso3, usecols, chunksize)

\* services/offline_store.py _cities_for_iso3_cached, the function body
OfflineCitiesCols ==
  <<Col("iso3"), Col("city"), Col("admin"), Col("is_capital"), Col("population"),
    Col("year"), Col("lat"), Col("lon")>>

WithCols(df, miss) ==
  Frame(df.cols \o miss,
        [i \in 1..Len(df.rows) |-> df.rows[i] \o [j \in 1..Len(miss) |-> NA]])

AddMissing(df, wanted) ==
  WithCols(df, SelectSeq(wanted, LAMBDA c : c \notin SeqToSet(df.cols)))

OfflineNumeric(df) ==
  MapCol(MapCol(MapCol(MapCol(df, Col("lat"), ToNumeric), Col("lon"), ToNumeric),
                Col("population"), ToNumeric), Col("year"), ToNumeric)

OfflineRows(df, iso3u) == Ret(Frame(df.cols, WhereIso3(df, iso3u)))

OfflineTidy(df, iso3u) ==
  OfflineRows(OfflineNumeric(UpperCol(AddMissing(df, OfflineCitiesCols))), iso3u)

RaiseOrTidy(exc, f, iso3u) ==
  IF exc # "" THEN Raise(exc)
  ELSE OfflineTidy(ReadFrame(f, "utf-8-sig", "sniff", <<>>), iso3u)

_cities_for_iso3_cached(f, iso3u) ==
  RaiseOrTidy(ReadExc(f, "utf-8-sig", "sniff", <<>>), f, iso3u)

\* services/offline_store.py cities_for_iso3: st.cache_data leaves a
\* parameter whose name starts with an underscore (_mtime_ns) out of the
\* key, so the key is (path, iso3u)
StKey(iso3) == <<CITIES, Upper(iso3)>>
StHit(stc, k) == \E e \in stc : e.key = k
StVal(stc, k) == (CHOOSE e \in stc : e.key = k).val

StMiss(stc, k, r) ==
  [res |-> r,
   stc |-> IF r.raised THEN stc ELSE stc \cup {[key |-> k, val |-> r.frame]},
   scanned |-> TRUE]

offline_cities_for_iso3(stc, f, iso3) ==
  IF ~f.exists THEN [res |-> Raise("FileNotFoundError"), stc |-> stc, scanned |-> FALSE]
  ELSE IF StHit(stc, StKey(iso3))
  THEN [res |-> Ret(StVal(stc, StKey(iso3))), stc |-> stc, scanned |-> FALSE]
  ELSE StMiss(stc, StKey(iso3), _cities_for_iso3_cached(f, Upper(iso3)))

\* ===================================== UN DESA reshape (fetch_migration_inout)
\* The sheet "Table 1" as read with its header row: one row per (origin,
\* destination) with the two location codes (o, d), one value per year
\* column and, when the sheet has the columns "Region, development group,
\* country or area of destination" and "... of origin" (names), the two
\* name texts (dn, on).
WORLD == 900
YearCols == <<1990, 2000>>

\* DataFrame.melt(id_vars=["m49","country"]): per year column, a row per
\* row of the selection
Melt(sel, Code(_), Name(_)) ==
  Flatten([k \in 1..Len(YearCols) |->
             [i \in 1..Len(sel) |->
                [m49 |-> Code(sel[i]), country |-> Name(sel[i]), year |-> YearCols[k],
                 value |-> <<sel[i].v[k]>>]]])

\* the order of the name texts (code points)
NameOrder == <<"Area", "Area*">>

KeyOf(r, on) == [j \in 1..Len(on) |->
                   IF on[j] = "m49" THEN r.m49
                   ELSE IF on[j] = "year" THEN r.year
                   ELSE IndexOf(NameOrder, r.country)]

KeysOf(rows, on) == {KeyOf(rows[i], on) : i \in 1..Len(rows)}

RECURSIVE SortedKeys(_)
SortedKeys(S) ==
  IF S = {} THEN <<>>
  ELSE <<CHOOSE x \in S : \A y \in S : LexLeq(x, y)>>
       \o SortedKeys(S \ {CHOOSE x \in S : \A y \in S : LexLeq(x, y)})

OutRow(m49, country, year, imm, emi) ==
  [m49 |-> m49, country |-> country, year |-> year, immigrants |-> imm, emigrants |-> emi]

\* the rows of an outer merge for one key: the pairs of the left and right
\* rows with that key, or the rows of one side with nulls for the other
JoinKey(L, R) ==
  IF R = <<>> THEN [i \in 1..Len(L) |-> OutRow(L[i].m49, L[i].country, L[i].year, L[i].value, NA)]
  ELSE IF L = <<>>
  THEN [i \in 1..Len(R) |-> OutRow(R[i].m49, R[i].country, R[i].year, NA, R[i].value)]
  ELSE Flatten([i \in 1..Len(L) |->
                  [j \in 1..Len(R) |->
                     OutRow(L[i].m49, L[i].country, L[i].year, L[i].value, R[j].value)]])

WithKey(rows, on, key) == SelectSeq(rows, LAMBDA r : KeyOf(r, on) = key)

MergeKeys(imm, emi, on, keys) ==
  Flatten([n \in 1..Len(keys) |-> JoinKey(WithKey(imm, on, keys[n]), WithKey(emi, on, keys[n]))])

\* pd.merge(imm, emi, on=on, how="outer"): keys in sorted order
Merge(imm, emi, on) ==
  MergeKeys(imm, emi, on, SortedKeys(KeysOf(imm, on) \cup KeysOf(emi, on)))

RECURSIVE InsertByKey(_, _, _)
InsertByKey(sorted, r, by) ==
  IF sorted = <<>> THEN <<r>>
  ELSE IF LexLeq(KeyOf(Head(sorted), by), KeyOf(r, by))
       THEN <<Head(sorted)>> \o InsertByKey(Tail(sorted), r, by)
       ELSE <<r>> \o sorted

\* out.sort_values(by), equal keys in their old order
RECURSIVE SortOut(_, _)
SortOut(rows, by) ==
  IF rows = <<>> THEN <<>>
  ELSE InsertByKey(SortOut(SubSeq(rows, 1, Len(rows) - 1), by), rows[Len(rows)], by)

\* an exception, or the long table
Failed(exc) == [raised |-> TRUE, exc |-> exc, rows |-> <<>>]
Long(rows) == [raised |-> FALSE, exc |-> "", rows |-> rows]

\* _extract_inout_from_xlsx with the roles of the two code columns exchanged
_extract_inout_from_xlsx_swapped(w) ==
  IF ~w.names THEN Failed("KeyError")
  ELSE Long(SortOut(
              Merge(Melt(SelectSeq(w.rows, LAMBDA r : r.d = WORLD),
                         LAMBDA r : r.d, LAMBDA r : r.dn),
                    Melt(SelectSeq(w.rows, LAMBDA r : r.o = WORLD),
                         LAMBDA r : r.o, LAMBDA r : r.on),
                    <<"m49", "country", "year">>),
              <<"m49", "year">>))

\* _extract_inout_from_xlsx on the sheet as read: the selection
\* [["m49","country"] + year_cols] raises KeyError when the renamed name
\* column is not there
_extract_inout_from_xlsx(w) ==
  IF ~w.names THEN Failed("KeyError")
  ELSE Long(SortOut(
              Merge(Melt(SelectSeq(w.rows, LAMBDA r : r.o = WORLD),
                         LAMBDA r : r.d, LAMBDA r : r.dn),
                    Melt(SelectSeq(w.rows, LAMBDA r : r.d = WORLD),
                         LAMBDA r : r.o, LAMBDA r : r.on),
                    <<"m49", "country", "year">>),
              <<"m49", "year">>))

\* DataFrame.to_csv of the long table: a column that holds a null is a float
\* column and prints its numbers with a decimal point
HasNull(rows, F(_)) == \E i \in 1..Len(rows) : F(rows[i]) = NA
NumText(cell, float) ==
  IF cell = NA THEN NA
  ELSE IF float THEN <<ToString(cell[1]) \o ".0">> ELSE <<ToString(cell[1])>>

LongTable(rows) ==
  [cols |-> <<Col("m49"), Col("country"), Col("year"), Col("immigrants"), Col("emigrants")>>,
   rows |-> [i \in 1..Len(rows) |->
               <<Col(ToString(rows[i].m49)), Col(rows[i].country), Col(ToString(rows[i].year)),
                 NumText(rows[i].immigrants, HasNull(rows, LAMBDA r : r.immigrants)),
                 NumText(rows[i].emigrants, HasNull(rows, LAMBDA r : r.emigrants))>>]]

\* ================================================================= state
\* rfile, rsrc, rcall: the file a robust reader is pointed at, what was
\*   written to it, and the last reader call with its outcome.
\* path, disk, dsrc, clock: the CSV of one fetcher, with its stat, the iso3
\*   cells written to it and the time of the last write.
\* lru, stc: the cache of functools.lru_cache around read_csv_filtered and
\*   the cache of st.cache_data around _cities_for_iso3_cached.
\* seen, ncalls, fcall: the first outcome per argument tuple, the number of
\*   calls made, and the last call with its outcome.
\* wide, mpc, mdf, m49csv: the sheet given to fetch_migration_inout.main, the
\*   position of main, the frame (or exception) of the reshape, and the file
\*   migration_inout_m49.csv.
\* mblob, mkind, mapcsv, mmap, iso3csv: the bytes main downloaded, which of
\*   xlsx_bytes and csv_bytes it holds,
\*   the file un_m49_iso.csv as main found it, the dict m49_to_iso3, and the
\*   file migration_inout.csv.
\* mlog, mexit, mfail, mtrace: what the run printed, its exit code (-1 while
\*   it runs), the stage that failed to obtain its data, and the stages the
\*   run has started, in order.
\* quick: the order in which the build's quicksort (the default kind of a
\*   one-column sort_values) leaves rows of equal key.
\* acalls: the calls of the per-entity accessors so far, in order, each with
\*   the version of the file it was made on.
\* fetcher, seedx: the fetch script that is run and the rows of
\*   countries_seed.csv, each with what the web services answer for it.
\* outcsv, auxcsv: the script's output CSV and, for the two scripts that write a
\*   second one (leaders_history.csv, migration_inout_m49.csv), that file.
\* run, nruns, nkills: the locals of the run in progress, the number of runs
\*   started and the number of runs killed.
\* req: the call of a request helper in progress: its locals, the requests
\*   and sleeps it has made, and what it returned.
\* box: the last call of _read_container on downloaded bytes: the bytes and
\*   the pair returned.
\* web, crawl: the pages of the site with their anchors, the pages that do
\*   not answer and max_depth; the locals of _find_download_url, the URLs it
\*   has fetched, in order, and what it returned.
VARIABLES rfile, rsrc, rcall, path, disk, dsrc, clock, lru, stc, seen, ncalls, fcall,
          wide, mpc, mdf, m49csv,
          mblob, mkind, mapcsv, mmap, iso3csv, mlog, mexit, mfail, mtrace,
          quick, acalls,
          fetcher, seedx, outcsv, auxcsv, run, nruns, nkills,
          req, box, web, crawl, exported, stmod

rvars == <<rfile, rsrc, rcall>>
fvars == <<path, disk, dsrc, clock, lru, stc, seen, ncalls, fcall>>
mvars == <<wide, mpc, mdf, m49csv>>
pvars == <<mblob, mkind, mapcsv, mmap, iso3csv, mlog, mexit, mfail, mtrace>>
avars == <<quick, acalls>>
xvars == <<fetcher, seedx, outcsv, auxcsv, run, nruns, nkills>>
nvars == <<req, box, web, crawl, exported, stmod>>
vars == <<rvars, fvars, mvars, pvars, avars, xvars, nvars>>

\* what the helpers' specifications leave alone
ReqKeep == <<rvars, fvars, mvars, pvars, avars, xvars, box, web, crawl, exported, stmod>>
BoxKeep == <<rvars, fvars, mvars, pvars, avars, xvars, req, web, crawl, exported, stmod>>
CrawlKeep == <<rvars, fvars, mvars, pvars, avars, xvars, req, box, web, exported, stmod>>
StKeep == <<rvars, fvars, mvars, pvars, avars, xvars, req, box, web, crawl, exported>>

\* the part of the state the readers' specification leaves alone
ROthers == <<fvars, mvars, pvars, avars, xvars, nvars>>
\* the part of the state the filtered reader's specifications leave alone
FOthers == <<rvars, mvars, pvars, avars, xvars, nvars>>
\* the part of the state the reshape's specification leaves alone
MOthers == <<rvars, fvars, pvars, avars, xvars, nvars>>

NoSrc == [kind |-> "absent", table |-> [cols |-> <<>>, rows |-> <<>>], enc |-> "", sep |-> ""]
NoCall == [fn |-> "", expected |-> <<>>, src |-> NoSrc, file |-> NoFile, res |-> Ret(EmptyFrame(<<>>)),
           tried |-> <<>>]

\* a CSV a fetcher writes: whether it starts with the header line, and its
\* data rows
NoCsv == [exists |-> FALSE, header |-> FALSE, rows |-> <<>>]
\* the locals of main: where it is, header / write_head, whether a header
\* line waits in the buffer of the output (pend) and of the second output
\* (pend2), the position in the seed, and the set done of fetch_cities_all
NoRun == [pc |-> "idle", header |-> FALSE, pend |-> FALSE, pend2 |-> FALSE, i |-> 0, done |-> {}]

\* no helper called: the locals of a call are its attempt and page, the
\* rows gathered in the list created before the loop (out) and inside an
\* attempt (got), the requests and sleeps made, and its events in order
NoReq == [fn |-> "", pc |-> "idle", attempt |-> 0, page |-> 0, pages |-> 0, out |-> <<>>, got |-> <<>>,
          gets |-> 0, sleeps |-> 0, trace |-> <<>>, res |-> "", rows |-> <<>>]

\* downloaded bytes: whether zipfile opens them and the names of the entries
\* in namelist() order; else what they are (a CSV text or something else)
\* and whether the first 4096 bytes hold a ',' and a line end
NoBlob == [zip |-> FALSE, names |-> <<>>, what |-> "", sep |-> "", comma |-> FALSE, nl |-> FALSE]
NoBox == [called |-> FALSE, blob |-> NoBlob, raised |-> FALSE, xlsx |-> "None", csv |-> "None"]

\* best is None
NoBest == [some |-> FALSE, sc |-> 0, url |-> "", text |-> "", file |-> FALSE]
NoWeb == [anchors |-> <<>>, down |-> {}, max_depth |-> 0]
NoCrawl == [pc |-> "idle", visited |-> {}, frontier |-> <<>>, todo |-> <<>>, next |-> <<>>, depth |-> 0,
            best |-> NoBest, fetched |-> <<>>, res |-> ""]

\* offline_store not imported: the two names of the per-country loader are
\* unbound (0, else the line of the def the name is bound to), and the
\* tables of migration_inout_m49.csv and countries_seed.csv
NoExport ==
  [pc |-> "none", migration_inout_for_iso3 |-> 0, load_migration_inout_for_iso3 |-> 0,
   m49 |-> <<>>, seed |-> <<>>, memo |-> <<>>]
\* streamlit as installed: the attributes it has, what each is bound to, the
\* cell _orig_btn of each call of patch_streamlit, the place in the loop and
\* the last call of a button
NoBtnCall == [name |-> "", kw |-> {}, to |-> "", passed |-> {}]
NoSt == [has |-> {}, attr |-> <<>>, cells |-> <<>>, pc |-> 0, call |-> NoBtnCall]
NIdle ==
  /\ req = NoReq /\ box = NoBox /\ web = NoWeb /\ crawl = NoCrawl
  /\ exported = NoExport /\ stmod = NoSt

XIdle ==
  /\ fetcher = ""
  /\ seedx = <<>>
  /\ outcsv = NoCsv
  /\ auxcsv = NoCsv
  /\ run = NoRun
  /\ nruns = 0
  /\ nkills = 0

RIdle ==
  /\ rfile = NoFile
  /\ rsrc = NoSrc
  /\ rcall = NoCall
  /\ XIdle
  /\ NIdle

PIdle ==
  /\ mblob = ""
  /\ mkind = ""
  /\ mapcsv = NoFile
  /\ mmap = <<>>
  /\ iso3csv = NoFile
  /\ mlog = <<>>
  /\ mexit = -1
  /\ mfail = ""
  /\ mtrace = <<>>

MIdle ==
  /\ wide = [names |-> TRUE, rows |-> <<>>]
  /\ mpc = "source"
  /\ mdf = Long(<<>>)
  /\ m49csv = NoFile
  /\ PIdle

\* ------------------------------------- the files the fetchers write
Paths == {CITIES, UNESCO, MIG_INOUT, MIG_TS}

\* the header and separator each fetcher writes
HeadOf(p) ==
  CASE p = CITIES -> <<Col("iso3"), Col("country"), Col("city"), Col("city_qid"), Col("admin"),
                       Col("is_capital"), Col("population"), Col("year"), Col("lat"), Col("lon")>>
    [] p = UNESCO -> <<Col("iso3"), Col("country"), Col("site"), Col("site_qid"), Col("type"),
                       Col("year"), Col("lat"), Col("lon")>>
    [] p = MIG_INOUT -> <<Col("iso3"), Col("year"), Col("immigrants"), Col("emigrants")>>
    [] p = MIG_TS -> <<Col("iso3"), Col("country"), Col("indicator"), Col("indicator_name"),
                       Col("year"), Col("value")>>
SepOf(p) == IF p = MIG_INOUT THEN SEMI ELSE COMMA

\* the i-th row of a file: its iso3 cell, a cell that tells the rows apart
\* (city, site, immigrants, value) and a year that is not in file order
Tags == <<"r1", "r2", "r3", "r4">>
Counts == <<"101", "102", "103", "104">>
YearAt == <<"2020", "2000", "1990", "2000">>
MkRow(p, iso3, i) ==
  CASE p = CITIES -> <<Col(iso3), Col("Country"), Col(Tags[i]), Col("Q1"), Col("adm"),
                       Col("0"), Col("100"), Col(YearAt[i]), Col("1.0"), Col("2.0")>>
    [] p = UNESCO -> <<Col(iso3), Col("Country"), Col(Tags[i]), Col("Q1"), Col("typ"),
                       Col(YearAt[i]), Col("1.0"), Col("2.0")>>
    [] p = MIG_INOUT -> <<Col(iso3), Col(YearAt[i]), Col(Counts[i]), Col("100")>>
    [] p = MIG_TS -> <<Col(iso3), Col("Country"), Col("SM.POP.NETM"), Col("Net"),
                       Col(YearAt[i]), Col(Counts[i])>>
TagCol(p) ==
  CASE p = CITIES -> Col("city") [] p = UNESCO -> Col("site")
    [] p = MIG_INOUT -> Col("immigrants") [] p = MIG_TS -> Col("value")

FileTable(p, isos) ==
  [cols |-> HeadOf(p), rows |-> [i \in 1..Len(isos) |-> MkRow(p, isos[i], i)]]

Iso3Vals == {"PRT", "ESP", "esp"}
Targets == {Col("esp"), Col("FRA")}
IsoSeqs == UNION {[1..n -> Iso3Vals] : n \in 0..MaxRows}
CacheIsoSeqs == {<<"ESP">>, <<"PRT">>, <<"PRT", "esp">>}

NoArgs == Args("", <<>>, <<>>, "None", "None", "None", <<-1, -1>>)
NoFCall ==
  [fn |-> "", a |-> NoArgs, chunk |-> 0, res |-> Ret(EmptyFrame(<<>>)), scanned |-> FALSE,
   file |-> Missing, isos |-> <<>>, repeat |-> FALSE, first |-> Ret(EmptyFrame(<<>>))]

FIdle ==
  /\ path = CITIES
  /\ disk = Missing
  /\ dsrc = <<>>
  /\ clock = 0
  /\ lru = <<>>
  /\ stc = {}
  /\ seen = {}
  /\ ncalls = 0
  /\ fcall = NoFCall
  /\ quick = "stable"
  /\ acalls = <<>>

FInit ==
  /\ path \in Paths
  /\ disk = Missing
  /\ dsrc = <<>>
  /\ clock = 0
  /\ lru = <<>>
  /\ stc = {}
  /\ seen = {}
  /\ ncalls = 0
  /\ fcall = NoFCall
  /\ quick = "stable"
  /\ acalls = <<>>
  /\ RIdle
  /\ MIdle

\* a run of the path's fetcher leaves the file with a later mtime
FetcherWrites(isoseqs) ==
  \E isos \in isoseqs :
    /\ clock < MaxClock
    /\ clock' = clock + 1
    /\ disk' = StatFile(to_csv(FileTable(path, isos), SepOf(path)), clock + 1)
    /\ dsrc' = isos
    /\ UNCHANGED <<path, lru, stc, seen, ncalls, fcall>>
    /\ UNCHANGED FOthers

\* the write of the filter specification: once, any table
WriteOnce == clock = 0 /\ FetcherWrites(IsoSeqs)

\* the writes of the cache specification: again and again, few tables
Rewrite == FetcherWrites(CacheIsoSeqs)

RemoveFile ==
  /\ disk.exists
  /\ disk' = Missing
  /\ dsrc' = <<>>
  /\ UNCHANGED <<path, clock, lru, stc, seen, ncalls, fcall>>
  /\ UNCHANGED FOthers

\* the calls made so far, by arguments and version of the file
SeenHas(a, sig) == \E e \in seen : e.a = a /\ e.sig = sig
SeenRes(a, sig) == (CHOOSE e \in seen : e.a = a /\ e.sig = sig).res

\* a call returned or raised: the outcome and what the call saw are recorded
Record(fn, a, chunk, c, maxcalls) ==
  /\ ncalls < maxcalls
  /\ ncalls' = ncalls + 1
  /\ fcall' = [fn |-> fn, a |-> a, chunk |-> chunk, res |-> c.res, scanned |-> c.scanned,
               file |-> disk, isos |-> dsrc, repeat |-> SeenHas(a, file_sig(disk)),
               first |-> IF SeenHas(a, file_sig(disk)) THEN SeenRes(a, file_sig(disk))
                         ELSE c.res]
  /\ seen' = IF SeenHas(a, file_sig(disk)) THEN seen
             ELSE seen \cup {[a |-> a, sig |-> file_sig(disk), res |-> c.res]}
  /\ UNCHANGED <<path, disk, dsrc, clock>>
  /\ UNCHANGED FOthers

\* ------------------------------------------------------------ the calls
MaxCalls == 2
MaxChunk == 2

AccessorCols(p) ==
  CASE p = CITIES -> CitiesCols [] p = UNESCO -> UnescoCols
    [] p = MIG_INOUT -> MigInoutCols [] p = MIG_TS -> MigTsCols
DirectCols(p) == {AccessorCols(p), <<Col("iso3"), Col("year")>>}

\* read_csv_filtered called directly, usecols a list or a tuple, the
\* signature taken from file_sig at the time of the call
Call_read_csv_filtered ==
  \E t \in Targets, kind \in {"list", "tuple"}, uc \in DirectCols(path),
     sep \in {"None", SepOf(path)} :
    LET a == Args(path, t, uc, kind, "None", sep, file_sig(disk))
        c == read_csv_filtered(lru, disk, a)
    IN /\ Record("read_csv_filtered", a, ChunkRows, c, MaxCalls)
       /\ lru' = c.cache
       /\ stc' = stc

Call_cities_for_iso3 ==
  \E t \in Targets :
    LET c == cities_for_iso3(lru, disk, t) IN
    /\ path = CITIES
    /\ Record("cities_for_iso3",
              Args(CITIES, t, CitiesCols, "list", "None", "None", file_sig(disk)),
              ChunkRows, c, MaxCalls)
    /\ lru' = c.cache
    /\ stc' = stc

Call_unesco_for_iso3 ==
  \E t \in Targets :
    LET c == unesco_for_iso3(lru, disk, t) IN
    /\ path = UNESCO
    /\ Record("unesco_for_iso3",
              Args(UNESCO, t, UnescoCols, "list", "None", "None", file_sig(disk)),
              ChunkRows, c, MaxCalls)
    /\ lru' = c.cache
    /\ stc' = stc

Call_migration_inout_for_iso3 ==
  \E t \in Targets :
    LET c == migration_inout_for_iso3(lru, disk, t) IN
    /\ path = MIG_INOUT
    /\ Record("migration_inout_for_iso3",
              Args(MIG_INOUT, Upper(t), MigInoutCols, "list", "dict", "None", file_sig(disk)),
              ChunkRows, c, MaxCalls)
    /\ lru' = c.cache
    /\ stc' = stc

\* load_migration_ts_for_iso3 reads through _filter_iso3_csv; the chunk size
\* is the parameter of _filter_iso3_csv
Call__filter_iso3_csv ==
  \E t \in Targets, n \in 1..MaxChunk :
    /\ path = MIG_TS
    /\ Record("_filter_iso3_csv",
              Args(MIG_TS, t, MigTsCols, "list", "dict", COMMA, <<-1, -1>>), n,
              [res |-> _filter_iso3_csv(disk, t, MigTsCols, n), scanned |-> disk.exists],
              MaxCalls)
    /\ UNCHANGED <<lru, stc>>

Call_offline_cities_for_iso3 ==
  \E t \in Targets :
    LET c == offline_cities_for_iso3(stc, disk, t) IN
    /\ path = CITIES
    /\ Record("offline_cities_for_iso3",
              Args(CITIES, Upper(t), <<>>, "None", "None", "sniff", <<-1, -1>>),
              0, c, MaxCalls)
    /\ stc' = c.stc
    /\ lru' = lru

FilterNext ==
  \/ WriteOnce
  \/ Call_read_csv_filtered
  \/ Call_cities_for_iso3
  \/ Call_unesco_for_iso3
  \/ Call_migration_inout_for_iso3
  \/ Call__filter_iso3_csv
  \/ Call_offline_cities_for_iso3

SpecFilter == FInit /\ [][FilterNext]_vars

CacheNext ==
  \/ Rewrite
  \/ RemoveFile
  \/ Call_read_csv_filtered
  \/ Call_cities_for_iso3
  \/ Call_unesco_for_iso3
  \/ Call_migration_inout_for_iso3
  \/ Call_offline_cities_for_iso3

CInit == FInit /\ path \in {CITIES, UNESCO, MIG_INOUT}

SpecCache == CInit /\ [][CacheNext]_vars

\* ------------------------------------ the filtered reader: what is claimed
\* the rows of the written table p whose iso3 is the target whatever the
\* letter case, in file order
MatchingRows(p, isos, t) ==
  SelectSeq(FileTable(p, isos).rows, LAMBDA r : Upper(r[1]) = Upper(t))

\* ... cut to the columns asked for
WantedRows(p, isos, t, usecols) ==
  Selected(Frame(HeadOf(p), MatchingRows(p, isos, t)), usecols).rows

\* the cells that tell the rows apart, wanted and returned
WantedTags(p, isos, t) ==
  {MatchingRows(p, isos, t)[i][IndexOf(HeadOf(p), TagCol(p))] :
     i \in 1..Len(MatchingRows(p, isos, t))}
GotTags(p, frame) ==
  IF frame.rows = <<>> THEN {}
  ELSE IF TagCol(p) \notin SeqToSet(frame.cols) THEN {NA}
  ELSE {frame.rows[i][IndexOf(frame.cols, TagCol(p))] : i \in 1..Len(frame.rows)}

\* a direct call that names the file's separator and columns of the file
ProperCall(c) ==
  /\ SepArg(c.a) = SepOf(c.a.path)
  /\ Col("iso3") \in SeqToSet(c.a.usecols)
  /\ SeqToSet(c.a.usecols) \subseteq SeqToSet(HeadOf(c.a.path))

AccessorFns == {"cities_for_iso3", "unesco_for_iso3", "migration_inout_for_iso3"}

\* C1: read_csv_filtered, and _filter_iso3_csv for every chunk size, return
\* exactly the file's rows whose iso3 equals the target case-insensitively,
\* in file order; the result does not depend on the chunk size.
C1_FilterExact ==
  /\ (fcall.fn = "read_csv_filtered" /\ fcall.file.exists /\ ProperCall(fcall))
     => /\ ~fcall.res.raised
        /\ fcall.res.frame.rows
             = WantedRows(fcall.a.path, fcall.isos, fcall.a.iso3, fcall.a.usecols)
  /\ (fcall.fn = "_filter_iso3_csv" /\ fcall.file.exists)
     => /\ ~fcall.res.raised
        /\ UpperCol(fcall.res.frame).rows
             = UpperCol(Frame(fcall.a.usecols,
                              WantedRows(fcall.a.path, fcall.isos, fcall.a.iso3,
                                         fcall.a.usecols))).rows
        /\ fcall.repeat => fcall.res = fcall.first

\* C2: an accessor called on the CSV as its fetcher writes it returns,
\* without raising, all and only the file's rows of the requested ISO3.
C2_AccessorsReturnRows ==
  (fcall.fn \in AccessorFns /\ fcall.file.exists)
  => /\ ~fcall.res.raised
     /\ GotTags(fcall.a.path, fcall.res.frame)
          = WantedTags(fcall.a.path, fcall.isos, fcall.a.iso3)

\* C6: read_csv_filtered returns an empty frame with exactly the requested
\* columns, and does not raise, when the file is missing, when no row matches
\* the ISO3, and when the file holds only a header.
C6_EmptyCases ==
  (/\ fcall.fn = "read_csv_filtered"
   /\ ProperCall(fcall)
   /\ \/ ~fcall.file.exists
      \/ MatchingRows(fcall.a.path, fcall.isos, fcall.a.iso3) = <<>>)
  => /\ ~fcall.res.raised
     /\ fcall.res.frame = EmptyFrame(fcall.a.usecols)

\* C7: read_csv_filtered as the accessors invoke it: a later call with the
\* same (path, iso3, columns, signature) returns the rows of the first call
\* without scanning the file again.
C7_MemoizedRepeat ==
  (fcall.fn \in AccessorFns /\ fcall.repeat)
  => /\ ~fcall.res.raised
     /\ ~fcall.scanned
     /\ fcall.res = fcall.first

\* C8: a call that passes the file's current signature returns rows of the
\* file's current content, never rows of an earlier version, also after the
\* file appeared or disappeared.
C8_NeverStale ==
  (\/ fcall.fn \in AccessorFns
   \/ fcall.fn = "offline_cities_for_iso3"
   \/ fcall.fn = "read_csv_filtered" /\ ProperCall(fcall))
  => /\ ~fcall.res.raised
     /\ GotTags(fcall.a.path, fcall.res.frame)
          = WantedTags(fcall.a.path, fcall.isos, fcall.a.iso3)

\* ===================================================== the robust readers

Cells == {<<"PRT">>, <<"esp">>, <<"x">>}
Headers == {<<Col("iso3"), Col("city")>>, <<Col("iso3")>>}
ExpectedLists == {<<>>, <<Col("city"), Col("iso3")>>, <<Col("iso3"), Col("pop")>>}

TablesOver(h) ==
  {[cols |-> h, rows |-> r] :
     r \in UNION {[1..n -> [1..Len(h) -> Cells]] : n \in 0..MaxRows}}
Tables == UNION {TablesOver(h) : h \in Headers}

\* contents that are not a table: nothing and white space (what
\* write_text("", encoding="utf-8") and an editor leave, no byte-order mark),
\* and a text whose third line has more fields than its header under every
\* separator
RaggedAll ==
  << <<"a", COMMA, "b", SEMI, "c", TAB, "d">>,
     <<"x", COMMA, "x", SEMI, "x", TAB, "x">>,
     <<"x", COMMA, "y", COMMA, "z", SEMI, "u", SEMI, "v", TAB, "w", TAB, "t">> >>
RawContents ==
  [empty |-> <<>>, blank |-> << <<SPACE>>, <<>> >>, ragged |-> RaggedAll]

RInit == RIdle /\ FIdle /\ MIdle

\* a fetcher (or the analyst) writes a table with to_csv / csv.writer; the
\* result of an earlier call is forgotten when the file changes
WriteTable ==
  \E t \in Tables, enc \in Encodings, sep \in Seps :
    /\ ~rfile.exists
    /\ rfile' = FileOf(Encode(to_csv(t, sep), enc))
    /\ rsrc' = [kind |-> "table", table |-> t, enc |-> enc, sep |-> sep]
    /\ rcall' = NoCall
    /\ UNCHANGED ROthers

\* a table whose last row has a cell with the other separator in it, which
\* csv.writer leaves unquoted: under that separator the row is too long
OtherSep(sep) == IF sep = COMMA THEN SEMI ELSE COMMA
SepCellTable(sep) ==
  [cols |-> <<Col("iso3"), Col("pop")>>,
   rows |-> << <<Col("x"), Col("y")>>, <<(<<"u", OtherSep(sep), "v">>), Col("w")>> >>]

WriteSepCell ==
  \E enc \in Encodings, sep \in {COMMA, SEMI} :
    /\ ~rfile.exists
    /\ rfile' = FileOf(Encode(to_csv(SepCellTable(sep), sep), enc))
    /\ rsrc' = [kind |-> "table", table |-> SepCellTable(sep), enc |-> enc, sep |-> sep]
    /\ rcall' = NoCall
    /\ UNCHANGED ROthers

WriteRaw ==
  \E k \in DOMAIN RawContents, enc \in {"utf-8", "utf-8-sig"} :
    /\ ~rfile.exists
    /\ (k # "ragged") => enc = "utf-8"
    /\ rfile' = FileOf(Encode(RawContents[k], enc))
    /\ rsrc' = [NoSrc EXCEPT !.kind = k, !.enc = enc]
    /\ rcall' = NoCall
    /\ UNCHANGED ROthers

DeleteFile ==
  /\ rfile.exists
  /\ rfile' = NoFile
  /\ rsrc' = NoSrc
  /\ rcall' = NoCall
  /\ UNCHANGED ROthers

Called(fn, expected, res) ==
  /\ rcall' = [fn |-> fn, expected |-> expected, src |-> rsrc, file |-> rfile, res |-> res,
                tried |-> TriedBy(fn, rfile)]
  /\ UNCHANGED <<rfile, rsrc>>
  /\ UNCHANGED ROthers

Call_read_csv_safe ==
  \E e \in ExpectedLists : Called("read_csv_safe", e, read_csv_safe(rfile, e))

Call_read_csv_safe_any ==
  Called("read_csv_safe_any", <<>>, read_csv_safe_any(rfile))

Call__read_csv_safe ==
  \E e \in ExpectedLists : Called("_read_csv_safe", e, _read_csv_safe(rfile, e))

Call__read_csv_safe_any ==
  Called("_read_csv_safe_any", <<>>, _read_csv_safe_any(rfile))

RNext ==
  \/ WriteTable
  \/ WriteSepCell
  \/ WriteRaw
  \/ DeleteFile
  \/ Call_read_csv_safe
  \/ Call_read_csv_safe_any
  \/ Call__read_csv_safe
  \/ Call__read_csv_safe_any


SpecRead == RInit /\ [][RNext]_vars

NoAttemptParses(fn, f) ==
  \A i \in 1..Len(AttemptsBy(fn, f)) :
     ~pd_read_csv(f, AttemptsBy(fn, f)[i][1], AttemptsBy(fn, f)[i][2]).ok

\* C3 (as claimed): a table written with any of the encodings utf-8,
\* utf-8-sig, utf-16 and any of the separators ',', ';', tab and read back by
\* _read_csv_safe_any, read_csv_safe_any or read_csv_safe comes back with the
\* same column names, the same number of rows and the same cell values.
C3_RoundTripIntact ==
  (/\ rcall.fn \in {"_read_csv_safe_any", "read_csv_safe_any", "read_csv_safe"}
   /\ rcall.expected = <<>>
   /\ rcall.src.kind = "table")
  => (/\ ~rcall.res.raised
      /\ rcall.res.frame.cols = rcall.src.table.cols
      /\ rcall.res.frame.rows = rcall.src.table.rows)

\* C4: no robust reader raises; for a path that does not exist, an empty or
\* white-space-only file, or a content none of the reader's attempts parses,
\* the frame returned has no rows and its columns are the expected list (no
\* columns when no list was given).
C4_ReadersNeverRaise ==
  rcall.fn # "" =>
    /\ ~rcall.res.raised
    /\ (\/ ~rcall.file.exists
        \/ rcall.src.kind \in {"empty", "blank"}
        \/ NoAttemptParses(rcall.fn, rcall.file))
       => rcall.res.frame = EmptyFrame(rcall.expected)

C4_Witness ==
  /\ rcall.fn = "_read_csv_safe"
  /\ rcall.src.kind = "ragged"
  /\ rcall.expected = <<Col("iso3"), Col("pop")>>
  /\ rcall.res.frame = EmptyFrame(rcall.expected)

ValueIn(table, i, c) == table.rows[i][IndexOf(table.cols, c)]

\* C5 (as claimed): with an expected column list, read_csv_safe and
\* _read_csv_safe return a frame whose columns are the expected list in that
\* order; for a file that holds a decodable table the rows are the file's
\* rows, a column the file lacks is null and a column of both keeps the
\* file's values; in every other outcome the frame has no rows.
C5_ExpectedColumnsKeepValues ==
  (rcall.fn \in {"read_csv_safe", "_read_csv_safe"} /\ rcall.expected # <<>>) =>
    /\ ~rcall.res.raised
    /\ rcall.res.frame.cols = rcall.expected
    /\ (rcall.src.kind = "table" /\ rcall.src.enc # "utf-16") =>
         /\ Len(rcall.res.frame.rows) = Len(rcall.src.table.rows)
         /\ \A i \in 1..Len(rcall.res.frame.rows), j \in 1..Len(rcall.expected) :
              rcall.res.frame.rows[i][j] =
                IF rcall.expected[j] \in SeqToSet(rcall.src.table.cols)
                THEN ValueIn(rcall.src.table, i, rcall.expected[j])
                ELSE NA
    /\ (rcall.src.kind # "table") => rcall.res.frame.rows = <<>>

\* ============================ fetch_migration_inout.main on a local sheet
MaxWide == 2

Codes == {WORLD, 250, 620}
Names == {"Area", "Area*"}

\* the values of the i-th row of the sheet, one per year column, no two alike
ValuesOf(i) == [k \in 1..Len(YearCols) |-> 100 * i + k]

MInit ==
  /\ wide \in {[names |-> b, rows |-> <<>>] : b \in BOOLEAN}
  /\ mpc = "source"
  /\ mdf = Long(<<>>)
  /\ m49csv = NoFile
  /\ PIdle
  /\ RIdle
  /\ FIdle

\* the sheet holds one more (origin, destination) row
AddRow ==
  \E o \in Codes, d \in Codes,
     on \in (IF wide.names THEN Names ELSE {""}), dn \in (IF wide.names THEN Names ELSE {""}) :
    /\ mpc = "source"
    /\ Len(wide.rows) < MaxWide
    /\ \A i \in 1..Len(wide.rows) : ~(wide.rows[i].o = o /\ wide.rows[i].d = d)
    /\ wide' = [wide EXCEPT !.rows = Append(@, [o |-> o, d |-> d, on |-> on, dn |-> dn,
                                                v |-> ValuesOf(Len(@) + 1)])]
    /\ UNCHANGED <<mpc, mdf, m49csv>>
    /\ UNCHANGED MOthers

\* main: df = _extract_inout_from_xlsx(xlsx_bytes); an exception ends the run
Extract ==
  /\ mpc = "source"
  /\ mdf' = _extract_inout_from_xlsx(wide)
  /\ mpc' = IF _extract_inout_from_xlsx(wide).raised THEN "failed" ELSE "extracted"
  /\ UNCHANGED <<wide, m49csv>>
  /\ UNCHANGED MOthers

\* main: df.to_csv(OUT_INOUT_M49, index=False, sep=";", encoding="utf-8")
WriteM49 ==
  /\ mpc = "extracted"
  /\ m49csv' = FileOf(Encode(to_csv(LongTable(mdf.rows), SEMI), "utf-8"))
  /\ mpc' = "m49_written"
  /\ UNCHANGED <<wide, mdf>>
  /\ UNCHANGED MOthers

MNext ==
  \/ AddRow
  \/ Extract
  \/ WriteM49

SpecReshape == MInit /\ [][MNext]_vars

\* every World -> D row gives (m49=D, year, immigrants=value) and every
\* O -> World row gives (m49=O, year, emigrants=value), per year column
Reshaped(w, out) ==
  \A i \in 1..Len(w.rows), k \in 1..Len(YearCols) :
    /\ w.rows[i].o = WORLD
       => \E n \in 1..Len(out) : /\ out[n].m49 = w.rows[i].d
                                 /\ out[n].year = YearCols[k]
                                 /\ out[n].immigrants = <<w.rows[i].v[k]>>
    /\ w.rows[i].d = WORLD
       => \E n \in 1..Len(out) : /\ out[n].m49 = w.rows[i].o
                                 /\ out[n].year = YearCols[k]
                                 /\ out[n].emigrants = <<w.rows[i].v[k]>>

\* C9 (as claimed): for a sheet whose columns are the two location code
\* columns and the year columns, the reshape returns the immigrants row of
\* every World -> D row and the emigrants row of every O -> World row.
C9_ReshapeCodeColumnsOnly ==
  (mpc # "source" /\ ~wide.names)
  => /\ ~mdf.raised
     /\ Reshaped(wide, mdf.rows)

\* C9 (amended): for a sheet that holds, besides the two location code
\* columns and the year columns, the two name columns of destination and
\* origin, the reshape returns the immigrants row of every World -> D row and
\* the emigrants row of every O -> World row.
C9_ReshapeWithNames ==
  (mpc # "source" /\ wide.names)
  => /\ ~mdf.raised
     /\ Reshaped(wide, mdf.rows)

C9_Witness ==
  /\ mpc = "extracted"
  /\ wide.names
  /\ \E i, j \in 1..Len(wide.rows) :
       /\ wide.rows[i].o = WORLD /\ wide.rows[i].d = 250
       /\ wide.rows[j].d = WORLD /\ wide.rows[j].o = 620
  /\ Len(mdf.rows) = 4

\* the (m49, year) of a line of migration_inout_m49.csv, and the pairs of
\* the sheet
LineKey(line) == <<Split(line, SEMI)[1], Split(line, SEMI)[3]>>
InputPairs(w) ==
  {<<Col(ToString(w.rows[i].d)), Col(ToString(YearCols[k]))>> :
     i \in {i \in 1..Len(w.rows) : w.rows[i].o = WORLD}, k \in 1..Len(YearCols)}
  \cup
  {<<Col(ToString(w.rows[i].o)), Col(ToString(YearCols[k]))>> :
     i \in {i \in 1..Len(w.rows) : w.rows[i].d = WORLD}, k \in 1..Len(YearCols)}

\* C10: migration_inout_m49.csv holds exactly one row per (m49, year) pair
\* of the sheet, whatever the name texts of the origin and destination
\* columns.
C10_OneRowPerM49Year ==
  mpc = "m49_written"
  => /\ \A i, j \in 2..Len(m49csv.lines) :
          i # j => LineKey(m49csv.lines[i]) # LineKey(m49csv.lines[j])
     /\ {LineKey(m49csv.lines[i]) : i \in 2..Len(m49csv.lines)} = InputPairs(wide)

\* =================================== fetch_migration_inout.main, every stage
\* ------------------------------------------ the mapping file un_m49_iso.csv
RECURSIVE LStrip(_)
LStrip(cell) == IF cell # <<>> /\ Head(cell) = SPACE THEN LStrip(Tail(cell)) ELSE cell
RECURSIVE RStrip(_)
RStrip(cell) ==
  IF cell # <<>> /\ cell[Len(cell)] = SPACE THEN RStrip(SubSeq(cell, 1, Len(cell) - 1))
  ELSE cell
\* str.strip()
Strip(cell) == RStrip(LStrip(cell))

\* the candidate header names of _load_un_official_map
M49Cands == <<"M49 code", "M49", "UN M49", "m49", "code">>
Iso3Cands ==
  <<"ISO-alpha3 code", "ISO 3166-1 alpha-3 code", "alpha-3", "iso3", "ISO3", "Alpha-3 code">>

\* str(c).strip().lower() of a header name, and the same text with only its
\* alphanumeric characters kept
LowerName(n) ==
  CASE n = "M49 code" -> "m49 code" [] n = "M49 Code" -> "m49 code" [] n = "M49" -> "m49"
    [] n = "UN M49" -> "un m49" [] n = "ISO-alpha3 code" -> "iso-alpha3 code"
    [] n = "ISO-alpha3 Code" -> "iso-alpha3 code"
    [] n = "ISO 3166-1 alpha-3 code" -> "iso 3166-1 alpha-3 code"
    [] n = "ISO3" -> "iso3" [] n = "Alpha-3 code" -> "alpha-3 code"
    [] n = "ISO alpha3 code" -> "iso alpha3 code" [] n = "Country" -> "country"
    [] OTHER -> n
AlnumName(n) ==
  CASE n = "m49 code" -> "m49code" [] n = "un m49" -> "unm49"
    [] n = "iso-alpha3 code" -> "isoalpha3code" [] n = "iso alpha3 code" -> "isoalpha3code"
    [] n = "iso 3166-1 alpha-3 code" -> "iso31661alpha3code"
    [] n = "alpha-3" -> "alpha3" [] n = "alpha-3 code" -> "alpha3code"
    [] OTHER -> n

\* the text of a header cell; a cell that still holds a separator is no name
NameOf(cell) == IF Len(Strip(cell)) = 1 THEN Strip(cell)[1] ELSE "?"
LowKey(cell) == LowerName(NameOf(cell))
NormKey(cell) == AlnumName(LowKey(cell))

\* low = {key: c for c in df.columns}: a later column replaces an earlier one
LastLow(cols, k) ==
  CHOOSE i \in 1..Len(cols) : LowKey(cols[i]) = k /\ \A j \in (i + 1)..Len(cols) : LowKey(cols[j]) # k
LastNorm(cols, k) ==
  CHOOSE i \in 1..Len(cols) : NormKey(cols[i]) = k /\ \A j \in (i + 1)..Len(cols) : NormKey(cols[j]) # k

RECURSIVE PickLow(_, _)
PickLow(cols, cands) ==
  IF cands = <<>> THEN 0
  ELSE IF \E i \in 1..Len(cols) : LowKey(cols[i]) = LowerName(Head(cands))
       THEN LastLow(cols, LowerName(Head(cands)))
       ELSE PickLow(cols, Tail(cands))
RECURSIVE PickNorm(_, _)
PickNorm(cols, cands) ==
  IF cands = <<>> THEN 0
  ELSE IF \E i \in 1..Len(cols) : NormKey(cols[i]) = AlnumName(LowerName(Head(cands)))
       THEN LastNorm(cols, AlnumName(LowerName(Head(cands))))
       ELSE PickNorm(cols, Tail(cands))

\* _pick_col: the position of the column picked, 0 for None
_pick_col(cols, cands) ==
  IF PickLow(cols, cands) # 0 THEN PickLow(cols, cands) ELSE PickNorm(cols, cands)

\* pd.to_numeric(errors="coerce").astype("Int64") of an M49 cell: the number
\* the text spells, null for any other text
M49Universe == {900, 250, 620, 4}
ToM49(cell) ==
  IF \E c \in M49Universe : cell = <<ToString(c)>>
  THEN CHOOSE c \in M49Universe : cell = <<ToString(c)>>
  ELSE -1

\* df[i3c].astype(str).str.upper().str.strip(), then dropna(subset=[m49c, i3c]):
\* only a null M49 code drops a row, the text of a null alpha-3 cell is "NAN"
MapPairs(df, m, i3) ==
  SelectSeq([i \in 1..Len(df.rows) |->
               [m49 |-> ToM49(df.rows[i][m]), iso3 |-> Strip(Upper(AsStr(df.rows[i][i3])))]],
            LAMBDA e : e.m49 # -1)

\* drop_duplicates(subset=[m49c]): the first row of every code
RECURSIVE FirstPerCode(_, _)
FirstPerCode(pairs, seen_codes) ==
  IF pairs = <<>> THEN <<>>
  ELSE IF Head(pairs).m49 \in seen_codes THEN FirstPerCode(Tail(pairs), seen_codes)
  ELSE <<Head(pairs)>> \o FirstPerCode(Tail(pairs), seen_codes \cup {Head(pairs).m49})

\* the outcome of _load_un_official_map: an exception of read_csv, or the dict
\* and whether the warning about unrecognised columns was logged
MapOut(raised, warned, pairs) == [raised |-> raised, warned |-> warned, pairs |-> pairs]

MapOfFrame(df) ==
  IF ~df.ok THEN MapOut(TRUE, FALSE, <<>>)
  ELSE IF _pick_col(df.cols, M49Cands) = 0 \/ _pick_col(df.cols, Iso3Cands) = 0
       THEN MapOut(FALSE, TRUE, <<>>)
       ELSE MapOut(FALSE, FALSE,
                   FirstPerCode(MapPairs(df, _pick_col(df.cols, M49Cands),
                                         _pick_col(df.cols, Iso3Cands)), {}))

_load_un_official_map(f) ==
  IF ~f.exists THEN MapOut(FALSE, FALSE, <<>>)
  ELSE MapOfFrame(pd_read_csv(f, "utf-8-sig", "sniff"))

\* merged["m49"].map(m49_to_iso3)
InMap(pairs, m49) == \E i \in 1..Len(pairs) : pairs[i].m49 = m49
MapGet(pairs, m49) == pairs[CHOOSE i \in 1..Len(pairs) : pairs[i].m49 = m49].iso3

\* ------------------------------------------------ the stages' computations
\* _read_container(blob) by what the blob is: which of (xlsx_bytes,
\* csv_bytes) comes back non-empty, or the RuntimeError of a ZIP that holds
\* neither; bytes that are no ZIP and no text with ',' come back as
\* xlsx_bytes although they are no workbook
BlobKinds == {"xlsx", "zip_xlsx", "zip_csv", "zip_other", "csv_text", "other", "empty"}
_read_container(blob) ==
  CASE blob \in {"xlsx", "zip_xlsx"} -> [raised |-> FALSE, kind |-> "xlsx"]
    [] blob \in {"zip_csv", "csv_text"} -> [raised |-> FALSE, kind |-> "csv"]
    [] blob = "zip_other" -> [raised |-> TRUE, kind |-> "none"]
    [] blob = "other" -> [raised |-> FALSE, kind |-> "notxlsx"]
    [] OTHER -> [raised |-> FALSE, kind |-> "none"]

\* _extract_inout_from_csv on the long CSV of the same (origin, destination)
\* rows: groupby(code, year).sum() of one value per group, merged on
\* ["m49","year"]; the frame has no column "country"
_extract_inout_from_csv(w) ==
  Long(SortOut(
         Merge(Melt(SelectSeq(w.rows, LAMBDA r : r.o = WORLD),
                    LAMBDA r : r.d, LAMBDA r : ""),
               Melt(SelectSeq(w.rows, LAMBDA r : r.d = WORLD),
                    LAMBDA r : r.o, LAMBDA r : ""),
               <<"m49", "year">>),
         <<"m49", "year">>))

\* the extraction main runs for what it holds; pd.ExcelFile raises on bytes
\* that are no workbook
ExtractOf(kind, w) ==
  IF kind = "xlsx" THEN _extract_inout_from_xlsx(w)
  ELSE IF kind = "csv" THEN _extract_inout_from_csv(w)
  ELSE Failed("ValueError")

\* df.to_csv(OUT_INOUT_M49): the frame of the CSV extraction has four columns
M49Table(kind, rows) ==
  IF kind = "csv"
  THEN [cols |-> <<Col("m49"), Col("year"), Col("immigrants"), Col("emigrants")>>,
        rows |-> [i \in 1..Len(rows) |->
                    <<LongTable(rows).rows[i][1], LongTable(rows).rows[i][3],
                      LongTable(rows).rows[i][4], LongTable(rows).rows[i][5]>>]]
  ELSE LongTable(rows)

\* the order of the iso3 texts (code points), the empty text first
Iso3Order == <<"AFG", "FRA", "NAN", "PRT">>
IsoRank(cell) == IF cell = <<>> THEN 0 ELSE IndexOf(Iso3Order, cell[1])

RECURSIVE InsertIso(_, _)
InsertIso(sorted, r) ==
  IF sorted = <<>> THEN <<r>>
  ELSE IF LexLeq(<<IsoRank(Head(sorted).iso3), Head(sorted).year>>, <<IsoRank(r.iso3), r.year>>)
       THEN <<Head(sorted)>> \o InsertIso(Tail(sorted), r)
       ELSE <<r>> \o sorted
\* sort_values(["iso3", "year"]), equal keys in their old order
RECURSIVE SortIso(_)
SortIso(rows) ==
  IF rows = <<>> THEN <<>>
  ELSE InsertIso(SortIso(SubSeq(rows, 1, Len(rows) - 1)), rows[Len(rows)])

\* merged.dropna(subset=["iso3"])[["iso3","year","immigrants","emigrants"]]
\* with iso3 upper-cased and stripped, sorted
Mapped(rows, pairs) == SelectSeq(rows, LAMBDA r : InMap(pairs, r.m49))
OutIso3(rows, pairs) ==
  SortIso([i \in 1..Len(Mapped(rows, pairs)) |->
             [iso3 |-> Strip(Upper(MapGet(pairs, Mapped(rows, pairs)[i].m49))),
              year |-> Mapped(rows, pairs)[i].year,
              immigrants |-> Mapped(rows, pairs)[i].immigrants,
              emigrants |-> Mapped(rows, pairs)[i].emigrants]])

\* out.to_csv(OUT_INOUT_ISO3): the number columns keep the dtype they have
\* in df, a float column when df holds a null in it
Iso3Table(rows, pairs) ==
  [cols |-> <<Col("iso3"), Col("year"), Col("immigrants"), Col("emigrants")>>,
   rows |-> [i \in 1..Len(OutIso3(rows, pairs)) |->
               <<OutIso3(rows, pairs)[i].iso3, Col(ToString(OutIso3(rows, pairs)[i].year)),
                 NumText(OutIso3(rows, pairs)[i].immigrants, HasNull(rows, LAMBDA r : r.immigrants)),
                 NumText(OutIso3(rows, pairs)[i].emigrants, HasNull(rows, LAMBDA r : r.emigrants))>>]]

\* faltas = merged[merged["iso3"].isna()][["m49","country"]].drop_duplicates()
RECURSIVE DropDup(_, _)
DropDup(s, had) ==
  IF s = <<>> THEN <<>>
  ELSE IF Head(s) \in had THEN DropDup(Tail(s), had)
  ELSE <<Head(s)>> \o DropDup(Tail(s), had \cup {Head(s)})
Faltas(rows, pairs) ==
  DropDup([i \in 1..Len(SelectSeq(rows, LAMBDA r : ~InMap(pairs, r.m49))) |->
             <<SelectSeq(rows, LAMBDA r : ~InMap(pairs, r.m49))[i].m49,
               SelectSeq(rows, LAMBDA r : ~InMap(pairs, r.m49))[i].country>>], {})

\* faltas.head(10)
HeadRows == 10
HeadOfRows(s) == SubSeq(s, 1, IF Len(s) < HeadRows THEN Len(s) ELSE HeadRows)

\* a line of the run's output: its kind and the (m49, country) pairs it lists
Line(kind, pairs) == [kind |-> kind, pairs |-> pairs]

\* ------------------------------------------------------- the run of main
MaxSheetRows == 2
MaxMapRows == 2

\* the sheets a run is given: up to MaxSheetRows distinct (origin,
\* destination) rows, with or without the two name columns
SheetPairs == {<<WORLD, 250>>, <<620, WORLD>>, <<250, WORLD>>, <<WORLD, WORLD>>}
SheetSeqs ==
  {s \in UNION {[1..n -> SheetPairs] : n \in 0..MaxSheetRows} :
     \A i, j \in 1..Len(s) : i # j => s[i] # s[j]}
SheetOf(s, names) ==
  [names |-> names,
   rows |-> [i \in 1..Len(s) |->
               [o |-> s[i][1], d |-> s[i][2],
                on |-> IF names THEN "Area" ELSE "", dn |-> IF names THEN "Area" ELSE "",
                v |-> ValuesOf(i)]]]
MainSheets == {SheetOf(s, b) : s \in SheetSeqs, b \in BOOLEAN}

\* the mapping files a run can find: absent, a table with the UN header and
\* up to MaxMapRows rows, or a one-row table under another header
MapCells ==
  {<<Col("250"), Col("FRA")>>, <<Col("250"), <<SPACE, "fra", SPACE>>>>,
   <<Col("620"), Col("PRT")>>, <<Col("620"), NA>>, <<Col("620"), <<SPACE>>>>,
   <<Col("4"), Col("AFG")>>}
MapRowSeqs == UNION {[1..n -> MapCells] : n \in 0..MaxMapRows}
MapHeaders ==
  {<<Col("M49 code"), Col("ISO alpha3 code")>>, <<Col("M49 code"), Col("Country")>>,
   <<<<SPACE, "M49 Code">>, Col("ISO3")>>}
MapFiles ==
  {NoFile}
  \cup {FileOf(Encode(to_csv([cols |-> <<Col("M49 code"), Col("ISO-alpha3 Code")>>, rows |-> r],
                             COMMA), "utf-8-sig")) : r \in MapRowSeqs}
  \cup {FileOf(Encode(to_csv([cols |-> h, rows |-> <<<<Col("250"), Col("FRA")>>>>], SEMI),
                      e)) : h \in MapHeaders, e \in {"utf-8", "utf-16"}}

PInit ==
  /\ wide \in MainSheets
  /\ mpc = "start"
  /\ mdf = Long(<<>>)
  /\ m49csv = NoFile
  /\ PIdle
  /\ RIdle
  /\ FIdle

PKeep == <<rvars, fvars, avars, xvars, nvars, wide>>

\* print(...); sys.exit(2)
Exit2(fail) ==
  /\ mlog' = Append(mlog, Line("error", <<>>))
  /\ mexit' = 2
  /\ mfail' = fail
  /\ mpc' = "exit"

\* an exception nobody catches: the traceback is printed, the exit code is 1
Crash(fail) ==
  /\ mlog' = Append(mlog, Line("traceback", <<>>))
  /\ mexit' = 1
  /\ mfail' = fail
  /\ mpc' = "exit"

\* main with --source: the file is missing, or its bytes are unwrapped
Main_Source ==
  \E exists \in BOOLEAN, blob \in BlobKinds :
    /\ mpc = "start"
    /\ IF ~exists
       THEN /\ Exit2("source_missing")
            /\ UNCHANGED <<mkind, mtrace>>
       ELSE /\ mtrace' = Append(mtrace, "Unwrap")
            /\ IF _read_container(blob).raised
               THEN /\ mlog' = mlog \o <<Line("info", <<>>), Line("traceback", <<>>)>>
                    /\ mexit' = 1
                    /\ mfail' = "no_usable_container"
                    /\ mpc' = "exit"
                    /\ UNCHANGED mkind
               ELSE /\ mlog' = Append(mlog, Line("info", <<>>))
                    /\ mkind' = _read_container(blob).kind
                    /\ mpc' = "unwrapped"
                    /\ UNCHANGED <<mexit, mfail>>
    /\ UNCHANGED <<mblob, mdf, m49csv, mapcsv, mmap, iso3csv>>
    /\ UNCHANGED PKeep

\* main without --source, the cached copy exists and --force is not given:
\* xlsx_bytes are the bytes of the copy
Main_Cache ==
  /\ mpc = "start"
  /\ mlog' = Append(mlog, Line("info", <<>>))
  /\ mkind' = "xlsx"
  /\ mpc' = "unwrapped"
  /\ UNCHANGED <<mblob, mdf, m49csv, mapcsv, mmap, iso3csv, mexit, mfail, mtrace>>
  /\ UNCHANGED PKeep

\* main without --source and without a usable copy, with --no-download
Main_NoDownload ==
  /\ mpc = "start"
  /\ Exit2("no_source")
  /\ UNCHANGED <<mblob, mkind, mdf, m49csv, mapcsv, mmap, iso3csv, mtrace>>
  /\ UNCHANGED PKeep

\* dl = _find_download_url(BASE_URL, max_depth=2)
Main_Locate ==
  \E found \in BOOLEAN :
    /\ mpc = "start"
    /\ mtrace' = Append(mtrace, "Locate")
    /\ IF found
       THEN /\ mlog' = Append(mlog, Line("info", <<>>))
            /\ mpc' = "located"
            /\ UNCHANGED <<mexit, mfail>>
       ELSE /\ mlog' = mlog \o <<Line("info", <<>>), Line("error", <<>>)>>
            /\ mexit' = 2
            /\ mfail' = "no_link"
            /\ mpc' = "exit"
    /\ UNCHANGED <<mblob, mkind, mdf, m49csv, mapcsv, mmap, iso3csv>>
    /\ UNCHANGED PKeep

\* blob = _fetch(dl, timeout=180): None after four failed attempts
Main_Fetch ==
  \E blob \in BlobKinds \cup {"failed"} :
    /\ mpc = "located"
    /\ mtrace' = Append(mtrace, "Fetch")
    /\ IF blob \in {"failed", "empty"}
       THEN /\ mlog' = mlog \o <<Line("info", <<>>), Line("error", <<>>)>>
            /\ mexit' = 2
            /\ mfail' = "download_failed"
            /\ mpc' = "exit"
            /\ UNCHANGED mblob
       ELSE /\ mlog' = Append(mlog, Line("info", <<>>))
            /\ mblob' = blob
            /\ mpc' = "fetched"
            /\ UNCHANGED <<mexit, mfail>>
    /\ UNCHANGED <<mkind, mdf, m49csv, mapcsv, mmap, iso3csv>>
    /\ UNCHANGED PKeep

\* xlsx_bytes, csv_bytes = _read_container(blob)
Main_Unwrap ==
  /\ mpc = "fetched"
  /\ mtrace' = Append(mtrace, "Unwrap")
  /\ IF _read_container(mblob).raised
     THEN /\ Crash("no_usable_container")
          /\ UNCHANGED mkind
     ELSE /\ mkind' = _read_container(mblob).kind
          /\ mpc' = "unwrapped"
          /\ UNCHANGED <<mlog, mexit, mfail>>
  /\ UNCHANGED <<mblob, mdf, m49csv, mapcsv, mmap, iso3csv>>
  /\ UNCHANGED PKeep

\* if xlsx_bytes: df = _extract_inout_from_xlsx(...) elif csv_bytes: df =
\* _extract_inout_from_csv(...) else: print(...); sys.exit(2)
Main_Extract ==
  /\ mpc = "unwrapped"
  /\ IF mkind = "none"
     THEN /\ Exit2("no_usable_container")
          /\ UNCHANGED <<mdf, mtrace>>
     ELSE /\ mtrace' = Append(mtrace, "Reshape")
          /\ mdf' = ExtractOf(mkind, wide)
          /\ IF ExtractOf(mkind, wide).raised
             THEN Crash(IF mkind = "notxlsx" THEN "no_usable_container" ELSE "reshape_failed")
             ELSE /\ mpc' = "extracted"
                  /\ UNCHANGED <<mlog, mexit, mfail>>
  /\ UNCHANGED <<mblob, mkind, m49csv, mapcsv, mmap, iso3csv>>
  /\ UNCHANGED PKeep

\* OUT_INOUT_M49.write_text(""); df.to_csv(OUT_INOUT_M49, index=False, sep=";")
Main_WriteM49 ==
  /\ mpc = "extracted"
  /\ mtrace' = Append(mtrace, "Persist")
  /\ m49csv' = FileOf(Encode(to_csv(M49Table(mkind, mdf.rows), SEMI), "utf-8"))
  /\ mlog' = Append(mlog, Line("info", <<>>))
  /\ mpc' = "m49_written"
  /\ UNCHANGED <<mblob, mkind, mdf, mapcsv, mmap, iso3csv, mexit, mfail>>
  /\ UNCHANGED PKeep

\* what main logs when _load_un_official_map gave no dict: the two fallback
\* loaders are names this module does not define (NameError, caught), so the
\* run logs that only migration_inout_m49.csv stays, and returns
NoMapLines(warned) ==
  (IF warned THEN <<Line("map_warning", <<>>)>> ELSE <<>>)
  \o <<Line("info", <<>>), Line("no_mapping", <<>>)>>

\* m49_to_iso3 = _load_un_official_map(MAP_UN_OFFICIAL) and the fallbacks
Main_LoadMap ==
  \E f \in MapFiles :
    /\ mpc = "m49_written"
    /\ mtrace' = Append(mtrace, "Map")
    /\ mapcsv' = f
    /\ IF _load_un_official_map(f).raised
       THEN /\ Crash("no_mapping")
            /\ UNCHANGED mmap
       ELSE IF _load_un_official_map(f).pairs = <<>>
       THEN /\ mlog' = mlog \o NoMapLines(_load_un_official_map(f).warned)
            /\ mexit' = 0
            /\ mfail' = "no_mapping"
            /\ mpc' = "exit"
            /\ UNCHANGED mmap
       ELSE /\ mlog' = Append(mlog, Line("info", <<>>))
            /\ mmap' = _load_un_official_map(f).pairs
            /\ mpc' = "mapped"
            /\ UNCHANGED <<mexit, mfail>>
    /\ UNCHANGED <<mblob, mkind, mdf, m49csv, iso3csv>>
    /\ UNCHANGED PKeep

\* OUT_INOUT_ISO3.write_text(""); out.to_csv(OUT_INOUT_ISO3, index=False, sep=";")
Main_WriteIso3 ==
  /\ mpc = "mapped"
  /\ mtrace' = Append(mtrace, "Persist")
  /\ iso3csv' = FileOf(Encode(to_csv(Iso3Table(mdf.rows, mmap), SEMI), "utf-8"))
  /\ mlog' = Append(mlog, Line("info", <<>>))
  /\ mpc' = "iso3_written"
  /\ UNCHANGED <<mblob, mkind, mdf, m49csv, mapcsv, mmap, mexit, mfail>>
  /\ UNCHANGED PKeep

\* faltas = ...[["m49","country"]]: KeyError on the frame of the CSV
\* extraction; else the list of codes without ISO3 is logged when there is
\* one, and the message about a missing mapping when there is none
Main_Report ==
  /\ mpc = "iso3_written"
  /\ IF mkind = "csv" THEN Crash("")
     ELSE /\ mlog' = IF Faltas(mdf.rows, mmap) # <<>>
                     THEN mlog \o <<Line("unmapped_count", <<>>),
                                    Line("unmapped", HeadOfRows(Faltas(mdf.rows, mmap)))>>
                     ELSE Append(mlog, Line("no_mapping", <<>>))
          /\ mexit' = 0
          /\ mpc' = "exit"
          /\ UNCHANGED mfail
  /\ UNCHANGED <<mblob, mkind, mdf, m49csv, mapcsv, mmap, iso3csv, mtrace>>
  /\ UNCHANGED PKeep

PNext ==
  \/ Main_Source
  \/ Main_Cache
  \/ Main_NoDownload
  \/ Main_Locate
  \/ Main_Fetch
  \/ Main_Unwrap
  \/ Main_Extract
  \/ Main_WriteM49
  \/ Main_LoadMap
  \/ Main_WriteIso3
  \/ Main_Report

SpecMain == PInit /\ [][PNext]_vars

\* ------------------------------------------------- properties of the run
\* the data lines of a written CSV, split on ';'
DataLines(f) == [i \in 1..(Len(f.lines) - 1) |-> Split(f.lines[i + 1], SEMI)]

\* the (year, immigrants, emigrants) cells of a line of the M49 table
M49Values(kind, fields) ==
  IF kind = "csv" THEN <<fields[2], fields[3], fields[4]>>
  ELSE <<fields[3], fields[4], fields[5]>>

\* the alpha-3 cells the mapping file gives for the code of an M49 cell: the
\* cells of the alpha-3 column, on the rows with that code, that hold a text
AlphaCells(f, m49cell) ==
  {pd_read_csv(f, "utf-8-sig", "sniff").rows[i][2] :
     i \in {i \in 1..Len(pd_read_csv(f, "utf-8-sig", "sniff").rows) :
              /\ pd_read_csv(f, "utf-8-sig", "sniff").rows[i][1] = m49cell
              /\ Strip(pd_read_csv(f, "utf-8-sig", "sniff").rows[i][2]) # <<>>}}

\* the rows migration_inout.csv is to hold, from the two files main read
ExpectedIso3(kind, m49file, mapfile) ==
  UNION {{<<Strip(Upper(a))>> \o M49Values(kind, DataLines(m49file)[i]) :
            a \in AlphaCells(mapfile, DataLines(m49file)[i][1])} :
           i \in 1..Len(DataLines(m49file))}
ResolvedLines(m49file, mapfile) ==
  {i \in 1..Len(DataLines(m49file)) : AlphaCells(mapfile, DataLines(m49file)[i][1]) # {}}

\* C11: migration_inout.csv holds exactly the rows of the M49 table whose
\* code has an alpha-3 code in the mapping file, each with that code
\* upper-cased and trimmed as iso3 and with the year, immigrants and
\* emigrants of the M49 row; a mapping row with an empty or missing alpha-3
\* cell maps nothing.
C11_MappedRows ==
  iso3csv.exists
  => /\ {DataLines(iso3csv)[i] : i \in 1..Len(DataLines(iso3csv))}
          = ExpectedIso3(mkind, m49csv, mapcsv)
     /\ Len(DataLines(iso3csv)) = Cardinality(ResolvedLines(m49csv, mapcsv))

\* the codes of the M49 table left out of migration_inout.csv, and the codes
\* the log lists as unmapped
DroppedCodes == {mdf.rows[i].m49 : i \in {i \in 1..Len(mdf.rows) : ~InMap(mmap, mdf.rows[i].m49)}}
LoggedCodes ==
  UNION {{mlog[n].pairs[k][1] : k \in 1..Len(mlog[n].pairs)} :
           n \in {n \in 1..Len(mlog) : mlog[n].kind = "unmapped"}}

\* C12: when a run that wrote migration_inout.csv has ended, every code of
\* the M49 table left out of it is listed in the log, and when no code was
\* left out the log holds no message about a missing mapping.
C12_DroppedAreLogged ==
  (mexit # -1 /\ iso3csv.exists)
  => /\ DroppedCodes \subseteq LoggedCodes
     /\ DroppedCodes = {} => \A n \in 1..Len(mlog) : mlog[n].kind # "no_mapping"

\* the failures to obtain data the error policy names
DataFailures ==
  {"source_missing", "no_link", "download_failed", "no_usable_container", "no_mapping"}

\* C13: a run in which a stage failed to obtain its data has ended with a
\* nonzero exit code and a printed diagnostic, and has written neither
\* migration_inout_m49.csv nor migration_inout.csv.
C13_FailureAborts ==
  mfail \in DataFailures
  => /\ mexit \notin {-1, 0}
     /\ \E n \in 1..Len(mlog) : mlog[n].kind \in {"error", "traceback"}
     /\ ~m49csv.exists
     /\ ~iso3csv.exists

\* the place of a stage in the order Locate, Fetch, Unwrap container,
\* Reshape, Map M49->ISO3, Persist
StageOrder == <<"Locate", "Fetch", "Unwrap", "Reshape", "Map", "Persist">>

\* C14: the stages a run has started are in the order Locate, Fetch, Unwrap
\* container, Reshape, Map, Persist, none of them twice, and an output CSV
\* exists only once the mapping stage has run and Persist is the last stage.
C14_LinearStages ==
  /\ \A i, j \in 1..Len(mtrace) :
       i < j => IndexOf(StageOrder, mtrace[i]) < IndexOf(StageOrder, mtrace[j])
  /\ (m49csv.exists \/ iso3csv.exists)
     => /\ \E i \in 1..Len(mtrace) : mtrace[i] = "Map"
        /\ mtrace[Len(mtrace)] = "Persist"

\* ============================= per-entity accessors over the loaded frames
LEADERS == "leaders_history.csv"
WB == "wb_timeseries.csv"
TOURISM_TS == "tourism_timeseries.csv"
TOURISM_ORIGIN == "tourism_origin_eu.csv"
TOURISM_PURPOSE == "tourism_purpose_eu.csv"

\* DataFrame.empty: no row or no column
IsEmpty(df) == df.rows = <<>> \/ df.cols = <<>>

\* for c in cs: df[c] = pd.to_numeric(df[c], errors="coerce")
RECURSIVE NumericCols(_, _)
NumericCols(df, cs) ==
  IF cs = <<>> THEN df ELSE NumericCols(MapCol(df, Head(cs), ToNumeric), Tail(cs))

\* for c in cs: df[c] = df[c].astype(str).str.upper()
RECURSIVE UpperCols(_, _)
UpperCols(df, cs) ==
  IF cs = <<>> THEN df
  ELSE UpperCols(MapCol(df, Head(cs), LAMBDA c : Upper(AsStr(c))), Tail(cs))

\* a loader after its read r: an empty frame is returned as read
LoadWith(r, upper, numeric) ==
  IF r.raised \/ IsEmpty(r.frame) THEN r
  ELSE Ret(NumericCols(UpperCols(r.frame, upper), numeric))

\* df[df[col] == value]
WhereEq(df, col, value) ==
  Frame(df.cols, SelectSeq(df.rows, LAMBDA r : r[IndexOf(df.cols, col)] = value))

\* df.sort_values(col) with the default kind: rows of equal key stay in
\* their old order or not, as the build's quicksort leaves them
RECURSIVE InsertQuick(_, _, _, _, _)
InsertQuick(sorted, r, cols, col, tie) ==
  IF sorted = <<>> THEN <<r>>
  ELSE IF \/ RankOf(Head(sorted)[IndexOf(cols, col)]) < RankOf(r[IndexOf(cols, col)])
          \/ /\ tie = "stable"
             /\ RankOf(Head(sorted)[IndexOf(cols, col)]) = RankOf(r[IndexOf(cols, col)])
       THEN <<Head(sorted)>> \o InsertQuick(Tail(sorted), r, cols, col, tie)
       ELSE <<r>> \o sorted

RECURSIVE SortQuick(_, _, _, _)
SortQuick(rows, cols, col, tie) ==
  IF rows = <<>> THEN <<>>
  ELSE InsertQuick(SortQuick(SubSeq(rows, 1, Len(rows) - 1), cols, col, tie),
                   rows[Len(rows)], cols, col, tie)

sort_quick(df, col, tie) == Frame(df.cols, SortQuick(df.rows, df.cols, col, tie))

\* df.sort_values([c1, c2], ascending=[True, False]): a stable sort, nulls last
DirKey(row, cols, by, asc) ==
  [j \in 1..Len(by) |->
     IF asc[j] \/ row[IndexOf(cols, by[j])] = NA THEN RankOf(row[IndexOf(cols, by[j])])
     ELSE 0 - RankOf(row[IndexOf(cols, by[j])])]

RECURSIVE InsertDir(_, _, _, _, _)
InsertDir(sorted, r, cols, by, asc) ==
  IF sorted = <<>> THEN <<r>>
  ELSE IF LexLeq(DirKey(Head(sorted), cols, by, asc), DirKey(r, cols, by, asc))
       THEN <<Head(sorted)>> \o InsertDir(Tail(sorted), r, cols, by, asc)
       ELSE <<r>> \o sorted

RECURSIVE SortDir(_, _, _, _)
SortDir(rows, cols, by, asc) ==
  IF rows = <<>> THEN <<>>
  ELSE InsertDir(SortDir(SubSeq(rows, 1, Len(rows) - 1), cols, by, asc),
                 rows[Len(rows)], cols, by, asc)

sort_values_dir(df, by, asc) == Frame(df.cols, SortDir(df.rows, df.cols, by, asc))

\* df.drop_duplicates(subset=[col], keep="last"): the positions kept
LastIdx(rows, k) ==
  SelectSeq([i \in 1..Len(rows) |-> i],
            LAMBDA i : \A j \in (i + 1)..Len(rows) : rows[j][k] # rows[i][k])

drop_duplicates_last(df, col) ==
  Frame(df.cols,
        [n \in 1..Len(LastIdx(df.rows, IndexOf(df.cols, col))) |->
           df.rows[LastIdx(df.rows, IndexOf(df.cols, col))[n]]])

\* ---- World Bank (services/worldbank.py and services/offline_store.py)
WbCols ==
  <<Col("iso3"), Col("year"), Col("pop_total"), Col("pop_density"), Col("urban_pct")>>

\* load_worldbank_timeseries after its read (read_csv_safe in worldbank.py,
\* _read_csv_safe in offline_store.py)
load_worldbank_timeseries(r) ==
  LoadWith(r, <<Col("iso3")>>,
           <<Col("year"), Col("pop_total"), Col("pop_density"), Col("urban_pct")>>)

wb_series_for_country(df, iso3, tie) ==
  IF df.raised \/ IsEmpty(df.frame) THEN df
  ELSE Ret(sort_quick(dropna(WhereEq(df.frame, Col("iso3"), Upper(iso3)), Col("year")),
                      Col("year"), tie))

\* ---- leaders: the history frame of the pair leaders_for_iso3 returns (the
\* frame of leaders_current.csv is made by the same code)
LeadersCols ==
  <<Col("iso3"), Col("country"), Col("role"), Col("person"), Col("person_qid"),
    Col("start"), Col("end")>>
OfflineLeadersCols ==
  LeadersCols \o <<Col("end_cause"), Col("party"), Col("party_qid")>>

load_leaders_history(r) == LoadWith(r, <<Col("iso3")>>, <<>>)

\* .query("iso3 == @iso3u") in leaders.py, cur[cur["iso3"] == iso3u].copy()
\* in offline_store.py
leaders_for_iso3(df, iso3) ==
  IF df.raised THEN df ELSE Ret(WhereEq(df.frame, Col("iso3"), Upper(iso3)))

\* ---- UNESCO (services/offline_store.py)
OfflineUnescoCols ==
  <<Col("iso3"), Col("country"), Col("site"), Col("site_qid"), Col("type"),
    Col("year"), Col("lat"), Col("lon")>>

load_unesco_all(r) ==
  LoadWith(r, <<Col("iso3")>>, <<Col("year"), Col("lat"), Col("lon")>>)

offline_unesco_for_iso3(df, iso3) ==
  IF df.raised \/ IsEmpty(df.frame) THEN df
  ELSE Ret(sort_values(WhereEq(df.frame, Col("iso3"), Upper(iso3)),
                       <<Col("year"), Col("site")>>))

\* ---- tourism (services/tourism.py and services/offline_store.py)
TourismTsCols ==
  <<Col("iso3"), Col("country"), Col("indicator"), Col("indicator_name"),
    Col("year"), Col("value")>>
OriginCols == <<Col("geo"), Col("origin"), Col("year"), Col("arrivals"), Col("unit")>>
PurposeCols ==
  <<Col("geo"), Col("purpose"), Col("destination"), Col("year"), Col("trips"), Col("unit")>>

load_tourism_ts(r) == LoadWith(r, <<Col("iso3")>>, <<Col("year"), Col("value")>>)

tourism_series_for_iso3(df, iso3, tie) ==
  IF df.raised \/ IsEmpty(df.frame) THEN df
  ELSE Ret(sort_quick(WhereEq(df.frame, Col("iso3"), Upper(iso3)), Col("year"), tie))

\* _ISO3_TO_ISO2_EU.get(iso3u), NA for a code that is not in the dict
Iso2Of(cell) ==
  CASE cell = Col("PRT") -> Col("PT") [] cell = Col("ESP") -> Col("ES")
    [] cell = Col("FRA") -> Col("FR") [] OTHER -> NA

load_tourism_origin_eu(r) ==
  LoadWith(r, <<Col("geo"), Col("origin")>>, <<Col("year"), Col("arrivals")>>)

\* the same code in both modules
tourism_origin_for_iso3(df, iso3) ==
  IF df.raised \/ IsEmpty(df.frame) THEN df
  ELSE IF Iso2Of(Upper(iso3)) = NA THEN Ret(EmptyFrame(df.frame.cols))
  ELSE Ret(sort_values_dir(
             ReorderToExpected(WhereEq(df.frame, Col("geo"), Iso2Of(Upper(iso3))),
                               <<Col("origin"), Col("year"), Col("arrivals"), Col("unit")>>),
             <<Col("year"), Col("arrivals")>>, <<TRUE, FALSE>>))

load_tourism_purpose_eu(r) ==
  LoadWith(r, <<Col("geo"), Col("purpose"), Col("destination")>>,
           <<Col("year"), Col("trips")>>)

\* services/tourism.py: every column, by year and falling trips
tourism_purpose_for_iso3(df, iso3) ==
  IF df.raised \/ IsEmpty(df.frame) THEN df
  ELSE IF Iso2Of(Upper(iso3)) = NA THEN Ret(EmptyFrame(df.frame.cols))
  ELSE Ret(sort_values_dir(WhereEq(df.frame, Col("geo"), Iso2Of(Upper(iso3))),
                           <<Col("year"), Col("trips")>>, <<TRUE, FALSE>>))

\* services/offline_store.py: without the column geo, by year and purpose
offline_tourism_purpose_for_iso3(df, iso3) ==
  IF df.raised \/ IsEmpty(df.frame) THEN df
  ELSE IF Iso2Of(Upper(iso3)) = NA THEN Ret(EmptyFrame(df.frame.cols))
  ELSE Ret(sort_values(
             ReorderToExpected(WhereEq(df.frame, Col("geo"), Iso2Of(Upper(iso3))),
                               <<Col("purpose"), Col("destination"), Col("year"),
                                 Col("trips"), Col("unit")>>),
             <<Col("year"), Col("purpose")>>))

\* ---- migration in/out (services/offline_store.py)
\* the header names the loop maps to the expected ones
RenameVariant(c) ==
  IF c = <<MOJIBOM, "iso3">> \/ c = <<BOMCH, "iso3">> THEN Col("iso3")
  ELSE IF c = Col("time") THEN Col("year")
  ELSE c

\* ch.columns.str.strip(), then the rename when one of the four is missing
InoutHeader(cols) ==
  IF SeqToSet(MigInoutCols) \subseteq {Strip(cols[j]) : j \in 1..Len(cols)}
  THEN [j \in 1..Len(cols) |-> Strip(cols[j])]
  ELSE [j \in 1..Len(cols) |-> RenameVariant(Strip(cols[j]))]

\* one chunk: the four columns, the rows of the country, numbers
InoutChunk(df, iso3u) ==
  IF ~(SeqToSet(MigInoutCols) \subseteq SeqToSet(df.cols)) THEN EmptyFrame(MigInoutCols)
  ELSE NumericCols(WhereEq(UpperCols(ReorderToExpected(df, MigInoutCols), <<Col("iso3")>>),
                           Col("iso3"), iso3u),
                   <<Col("year"), Col("immigrants"), Col("emigrants")>>)

InoutTidy(df, tie) ==
  IF df.rows = <<>> THEN EmptyFrame(MigInoutCols)
  ELSE ReorderToExpected(
         drop_duplicates_last(sort_quick(dropna(df, Col("year")), Col("year"), tie),
                              Col("year")),
         MigInoutCols)

InoutOf(df, iso3u, tie) ==
  IF ~df.ok THEN Raise("ParserError")
  ELSE Ret(InoutTidy(InoutChunk(Frame(InoutHeader(df.cols), df.rows), iso3u), tie))

\* the body of load_migration_inout_for_iso3; migration_inout_for_iso3 of
\* offline_store.py is the same function under its second name
load_migration_inout_for_iso3(f, iso3, tie) ==
  IF ~f.exists THEN Ret(EmptyFrame(MigInoutCols))
  ELSE InoutOf(pd_read_csv(f, "utf-8-sig", "sniff"), Upper(iso3), tie)

\* Memo handing out the cached frame itself after a caller dropped its last
\* row in place
Memo_shared(memo, k, r) ==
  IF StHit(memo, k)
  THEN [res |-> Ret(Frame(StVal(memo, k).cols,
                          SubSeq(StVal(memo, k).rows, 1, Len(StVal(memo, k).rows) - 1))),
        stc |-> memo, scanned |-> FALSE]
  ELSE StMiss(memo, k, r)

\* a function under st.cache_data or lru_cache(maxsize=1): the key is the
\* function and the arguments it was called with
Memo(memo, k, r) ==
  IF StHit(memo, k) THEN [res |-> Ret(StVal(memo, k)), stc |-> memo, scanned |-> FALSE]
  ELSE StMiss(memo, k, r)

\* ------------------------------ the files the accessors are called on
MaxARows == 3
MaxACalls == 3

APaths ==
  {CITIES, UNESCO, MIG_INOUT, LEADERS, WB, TOURISM_TS, TOURISM_ORIGIN, TOURISM_PURPOSE}

\* the header each fetcher writes
AHeadOf(p) ==
  CASE p \in {CITIES, UNESCO, MIG_INOUT} -> HeadOf(p)
    [] p = LEADERS -> <<Col("iso3"), Col("country"), Col("role"), Col("person"),
                        Col("person_qid"), Col("start"), Col("end"), Col("party"),
                        Col("end_cause")>>
    [] p = WB -> WbCols
    [] p = TOURISM_TS -> TourismTsCols
    [] p = TOURISM_ORIGIN -> OriginCols
    [] p = TOURISM_PURPOSE -> PurposeCols

\* csv.writer writes ',' and fetch_tourism_all writes to_csv(sep=";")
ASepOf(p) ==
  IF p \in {MIG_INOUT, TOURISM_TS, TOURISM_ORIGIN, TOURISM_PURPOSE} THEN SEMI ELSE COMMA

\* the i-th row written: years that repeat and are not in file order, names
\* in falling order, a count that tells the rows apart
NameAt == <<"r4", "r3", "r2", "r1">>
AYear(i) == IF i % 2 = 1 THEN "2000" ELSE "1990"
Geo(iso3) == CASE iso3 = "PRT" -> "PT" [] iso3 = "ESP" -> "ES" [] iso3 = "esp" -> "es"

ARow(p, iso3, i) ==
  CASE p = CITIES -> <<Col(iso3), Col("Country"), Col(NameAt[i]), Col("Q1"), Col("adm"),
                       Col("0"), Col("100"), Col(AYear(i)), Col("1.0"), Col("2.0")>>
    [] p = UNESCO -> <<Col(iso3), Col("Country"), Col(NameAt[i]), Col("Q1"), Col("typ"),
                       Col(AYear(i)), Col("1.0"), Col("2.0")>>
    [] p = MIG_INOUT -> <<Col(iso3), Col(AYear(i)), Col(Counts[i]), Col("100")>>
    [] p = LEADERS -> <<Col(iso3), Col("Country"), Col("head_of_state"), Col(NameAt[i]),
                        Col("Q1"), Col(AYear(i)), Col("2020"), Col("party"), Col("cause")>>
    [] p = WB -> <<Col(iso3), Col(AYear(i)), Col(Counts[i]), Col("1.0"), Col("2.0")>>
    [] p = TOURISM_TS -> <<Col(iso3), Col("Country"), Col("ST.INT.ARVL"), Col("Arrivals"),
                           Col(AYear(i)), Col(Counts[i])>>
    [] p = TOURISM_ORIGIN -> <<Col(Geo(iso3)), Col("DE"), Col(AYear(i)), Col(Counts[i]),
                               Col("NR")>>
    [] p = TOURISM_PURPOSE -> <<Col(Geo(iso3)), Col("TOTAL"), Col("DOM"), Col(AYear(i)),
                                Col(Counts[i]), Col("NR")>>

ATable(p, isos) ==
  [cols |-> AHeadOf(p), rows |-> [i \in 1..Len(isos) |-> ARow(p, isos[i], i)]]

AIsoSeqs == UNION {[1..n -> {"PRT", "esp"}] : n \in 0..MaxARows}

AInit ==
  /\ path \in APaths
  /\ quick \in {"stable", "reversed"}
  /\ acalls = <<>>
  /\ disk = Missing
  /\ dsrc = <<>>
  /\ clock = 0
  /\ lru = <<>>
  /\ stc = {}
  /\ seen = {}
  /\ ncalls = 0
  /\ fcall = NoFCall
  /\ RIdle
  /\ MIdle

\* the run of the path's fetcher
AccessWrite ==
  \E isos \in AIsoSeqs :
    /\ clock = 0
    /\ clock' = 1
    /\ disk' = StatFile(to_csv(ATable(path, isos), ASepOf(path)), 1)
    /\ dsrc' = isos
    /\ UNCHANGED <<path, lru, stc, seen, ncalls, fcall>>
    /\ UNCHANGED FOthers

\* a call as recorded: the file, the iso3 given and, in the place of the
\* separator, the accessor called
AccArgs(fn, p, iso3) == Args(p, iso3, <<>>, "None", "None", fn, <<-1, -1>>)

\* a call returned or raised: Record, and the call joins acalls
ARecord(fn, a, c) ==
  /\ ncalls < MaxACalls
  /\ ncalls' = ncalls + 1
  /\ fcall' = [fn |-> fn, a |-> a, chunk |-> 0, res |-> c.res, scanned |-> c.scanned,
               file |-> disk, isos |-> dsrc, repeat |-> SeenHas(a, file_sig(disk)),
               first |-> IF SeenHas(a, file_sig(disk)) THEN SeenRes(a, file_sig(disk))
                         ELSE c.res]
  /\ seen' = IF SeenHas(a, file_sig(disk)) THEN seen
             ELSE seen \cup {[a |-> a, sig |-> file_sig(disk), res |-> c.res]}
  /\ acalls' = Append(acalls, [a |-> a, sig |-> file_sig(disk)])
  /\ UNCHANGED <<path, disk, dsrc, clock, quick>>
  /\ UNCHANGED <<rvars, mvars, pvars, xvars, nvars>>

\* an accessor over a loader that is not cached
Direct(fn, iso3, res) ==
  /\ ARecord(fn, AccArgs(fn, path, iso3), [res |-> res, scanned |-> disk.exists])
  /\ UNCHANGED <<lru, stc>>

Call_wb_series_for_country ==
  \E t \in Targets :
    /\ path = WB
    /\ \/ Direct("wb_series_for_country", t,
                 wb_series_for_country(
                   load_worldbank_timeseries(read_csv_safe(disk, WbCols)), t, quick))
       \/ Direct("offline_wb_series_for_country", t,
                 wb_series_for_country(
                   load_worldbank_timeseries(_read_csv_safe(disk, WbCols)), t, quick))

Call_leaders_for_iso3 ==
  \E t \in Targets :
    /\ path = LEADERS
    /\ \/ Direct("leaders_for_iso3", t,
                 leaders_for_iso3(load_leaders_history(read_csv_safe(disk, LeadersCols)), t))
       \/ Direct("offline_leaders_for_iso3", t,
                 leaders_for_iso3(
                   load_leaders_history(_read_csv_safe(disk, OfflineLeadersCols)), t))

Call_offline_unesco_for_iso3 ==
  \E t \in Targets :
    /\ path = UNESCO
    /\ Direct("offline_unesco_for_iso3", t,
              offline_unesco_for_iso3(
                load_unesco_all(_read_csv_safe(disk, OfflineUnescoCols)), t))

\* an accessor over the outcome c of a cached function
Cached(fn, iso3, c, res) ==
  /\ ARecord(fn, AccArgs(fn, path, iso3), [res |-> res, scanned |-> c.scanned])
  /\ stc' = c.stc
  /\ lru' = lru

\* load_tourism_ts is under lru_cache(maxsize=1) in offline_store.py only
Call_tourism_series_for_iso3 ==
  \E t \in Targets :
    /\ path = TOURISM_TS
    /\ \/ Direct("tourism_series_for_iso3", t,
                 tourism_series_for_iso3(
                   load_tourism_ts(read_csv_safe(disk, TourismTsCols)), t, quick))
       \/ LET c == Memo(stc, <<"load_tourism_ts", NA>>,
                        load_tourism_ts(_read_csv_safe(disk, TourismTsCols)))
          IN Cached("offline_tourism_series_for_iso3", t, c,
                    tourism_series_for_iso3(c.res, t, quick))

Call_tourism_origin_for_iso3 ==
  \E t \in Targets :
    /\ path = TOURISM_ORIGIN
    /\ \/ LET c == Memo(stc, <<"_load_origin_eu", NA>>,
                        load_tourism_origin_eu(read_csv_safe(disk, OriginCols)))
          IN Cached("tourism_origin_for_iso3", t, c, tourism_origin_for_iso3(c.res, t))
       \/ LET c == Memo(stc, <<"load_tourism_origin_eu", NA>>,
                        load_tourism_origin_eu(_read_csv_safe(disk, OriginCols)))
          IN Cached("offline_tourism_origin_for_iso3", t, c,
                    tourism_origin_for_iso3(c.res, t))

Call_tourism_purpose_for_iso3 ==
  \E t \in Targets :
    /\ path = TOURISM_PURPOSE
    /\ \/ LET c == Memo(stc, <<"_load_purpose_eu", NA>>,
                        load_tourism_purpose_eu(read_csv_safe(disk, PurposeCols)))
          IN Cached("tourism_purpose_for_iso3", t, c, tourism_purpose_for_iso3(c.res, t))
       \/ LET c == Memo(stc, <<"load_tourism_purpose_eu", NA>>,
                        load_tourism_purpose_eu(_read_csv_safe(disk, PurposeCols)))
          IN Cached("offline_tourism_purpose_for_iso3", t, c,
                    offline_tourism_purpose_for_iso3(c.res, t))

\* st.cache_data keys load_migration_inout_for_iso3 by the iso3 as given
Call_load_migration_inout_for_iso3 ==
  \E t \in Targets :
    LET c == Memo(stc, <<"load_migration_inout_for_iso3", t>>,
                  load_migration_inout_for_iso3(disk, t, quick))
    IN /\ path = MIG_INOUT
       /\ Cached("load_migration_inout_for_iso3", t, c, c.res)

AccessNext ==
  \/ AccessWrite
  \/ Call_cities_for_iso3
  \/ Call_offline_cities_for_iso3
  \/ Call_unesco_for_iso3
  \/ Call_offline_unesco_for_iso3
  \/ Call_leaders_for_iso3
  \/ Call_wb_series_for_country
  \/ Call_tourism_series_for_iso3
  \/ Call_tourism_origin_for_iso3
  \/ Call_tourism_purpose_for_iso3
  \/ Call_migration_inout_for_iso3
  \/ Call_load_migration_inout_for_iso3

SpecAccess == AInit /\ [][AccessNext]_vars

\* --------------------------------------- the accessors: what is claimed
MigFns == {"load_migration_inout_for_iso3", "migration_inout_for_iso3"}

\* the cell of column col in row n of the frame the last call returned
Got(n, col) == fcall.res.frame.rows[n][IndexOf(fcall.res.frame.cols, col)]

\* row i of the file the last call read is a row of the country asked for
OfCountry(i) == Upper(Col(fcall.isos[i])) = Upper(fcall.a.iso3)

\* C15: the per-country migration accessor returns at most one row per
\* (iso3, year), and for a year with several rows in the file the row that
\* comes last in the file.
C15_MigrationUnique ==
  (fcall.fn \in MigFns /\ fcall.file.exists)
  => /\ ~fcall.res.raised
     /\ \A m, n \in 1..Len(fcall.res.frame.rows) :
          m # n => Got(m, Col("year")) # Got(n, Col("year"))
     /\ \A n \in 1..Len(fcall.res.frame.rows) :
          \E i \in 1..Len(fcall.isos) :
            /\ OfCountry(i)
            /\ Got(n, Col("year")) = Col(AYear(i))
            /\ Got(n, Col("immigrants")) = Col(Counts[i])
            /\ \A j \in (i + 1)..Len(fcall.isos) : ~(OfCountry(j) /\ AYear(j) = AYear(i))

EntityFns ==
  {"cities_for_iso3", "offline_cities_for_iso3", "unesco_for_iso3",
   "offline_unesco_for_iso3", "leaders_for_iso3", "offline_leaders_for_iso3",
   "wb_series_for_country", "offline_wb_series_for_country",
   "tourism_series_for_iso3", "offline_tourism_series_for_iso3",
   "tourism_origin_for_iso3", "offline_tourism_origin_for_iso3",
   "tourism_purpose_for_iso3", "offline_tourism_purpose_for_iso3",
   "migration_inout_for_iso3", "load_migration_inout_for_iso3"}

\* the columns an entity is naturally keyed by: its year and, when it has
\* one, its name
YearColOf(p) == IF p = LEADERS THEN Col("start") ELSE Col("year")
NameColOf(p) ==
  CASE p = CITIES -> Col("city") [] p = UNESCO -> Col("site") [] p = LEADERS -> Col("person")
    [] OTHER -> NA

NonDecreasing(frame, col) ==
  \/ Len(frame.rows) <= 1
  \/ /\ col \in SeqToSet(frame.cols)
     /\ \A n \in 1..(Len(frame.rows) - 1) :
          RankOf(frame.rows[n][IndexOf(frame.cols, col)])
            <= RankOf(frame.rows[n + 1][IndexOf(frame.cols, col)])

\* C16: every per-entity accessor, of offline_store.py and of the sibling
\* modules, returns its rows in non-decreasing order of the entity's natural
\* key (year, or name), whatever the order of the rows in the file.
C16_SortedByNaturalKey ==
  (fcall.fn \in EntityFns /\ fcall.file.exists)
  => /\ ~fcall.res.raised
     /\ \/ NonDecreasing(fcall.res.frame, YearColOf(fcall.a.path))
        \/ NonDecreasing(fcall.res.frame, NameColOf(fcall.a.path))

WBF == "fetch_worldbank_timeseries"
COUNTRIES == "extract_country_data"
CITIESF == "fetch_cities_all"
LEADERSF == "fetch_leaders"
MIGF == "fetch_migration_inout"
Fetchers == {WBF, COUNTRIES, CITIESF, LEADERSF, MIGF}

Roles == <<"head_of_government", "head_of_state">>

\* a term as the SPARQL bindings give it: start and end are "" when unknown
\* or open
Term(qid, start, end) == [qid |-> qid, start |-> start, end |-> end]

\* a row of the seed: name_pt, and what Wikidata answers for the country (the
\* label of its item, the terms per role)
SeedRow(iso3, name, label, gov, head) ==
  [iso3 |-> iso3, name |-> name, label |-> label,
   terms |-> [head_of_government |-> gov, head_of_state |-> head]]

Row(iso3, k) == [iso3 |-> iso3, k |-> k]

\* ---- fetch_worldbank_timeseries: one row per year of the country
WbRows(s) == <<Row(s.iso3, <<"1990">>), Row(s.iso3, <<"2000">>)>>

\* ---- extract_country_data: profile_from_qid stores the label as name
CountryRows(s) == <<Row(s.iso3, <<s.label>>)>>

\* the skip test of main: a row of the file with this iso3 and this name;
\* read_csv raises on a file without header line (its first row, or nothing,
\* stands for the header) and the exception is swallowed
PrevHas(f, iso3, name) ==
  /\ f.header
  /\ \E n \in 1..Len(f.rows) : f.rows[n].iso3 = iso3 /\ f.rows[n].k[1] = name

\* ---- fetch_cities_all: the top cities of the country
CityRows(s) == <<Row(s.iso3, <<"c1">>), Row(s.iso3, <<"c2">>)>>

read_done_iso3(f) ==
  IF ~f.exists \/ ~f.header THEN {} ELSE {f.rows[n].iso3 : n \in 1..Len(f.rows)}

\* ---- fetch_leaders
\* dedup by (qid, start, end): the first binding of each key
DedupTerms(ts) ==
  SelectSeq([n \in 1..Len(ts) |-> IF \E j \in 1..(n - 1) : ts[j] = ts[n] THEN <<>> ELSE ts[n]],
            LAMBDA t : t # <<>>)

\* the order of str on the start texts of the model
StartOrder == <<"", "1995", "2005">>

\* max(ts, key=lambda t: t[3] or ""): the first term of the greatest start
MaxStart(ts) ==
  ts[CHOOSE i \in 1..Len(ts) :
       /\ \A j \in 1..Len(ts) : IndexOf(StartOrder, ts[j].start) <= IndexOf(StartOrder, ts[i].start)
       /\ \A j \in 1..(i - 1) : IndexOf(StartOrder, ts[j].start) < IndexOf(StartOrder, ts[i].start)]

\* the choice of lines 307-311 with the preference for an open term left out
CurrentOf_latest(subset) == MaxStart(subset)

\* lines 307-311: an open term when there is one, the latest start of those
CurrentOf(subset) ==
  IF SelectSeq(subset, LAMBDA t : t.end = "") # <<>>
  THEN MaxStart(SelectSeq(subset, LAMBDA t : t.end = ""))
  ELSE MaxStart(subset)

TermRow(iso3, role, t) == Row(iso3, <<role, t.qid, t.start, t.end>>)

\* the rows main writes to leaders_history.csv for a country
HistOfRole(s, role) ==
  [n \in 1..Len(DedupTerms(s.terms[role])) |-> TermRow(s.iso3, role, DedupTerms(s.terms[role])[n])]
HistRows(s) == HistOfRole(s, Roles[1]) \o HistOfRole(s, Roles[2])

\* ... and to leaders_current.csv
CurrOfRole(s, role) ==
  IF DedupTerms(s.terms[role]) = <<>> THEN <<>>
  ELSE <<TermRow(s.iso3, role, CurrentOf(DedupTerms(s.terms[role])))>>
CurrRows(s) == CurrOfRole(s, Roles[1]) \o CurrOfRole(s, Roles[2])

\* ---- fetch_migration_inout: the rows of the sheet, one per seed row here
MigRows(seed) == [n \in 1..Len(seed) |-> Row(seed[n].iso3, <<"1990">>)]

\* f.flush() with rows (and a header line, when one waits) in the buffer
Flush(f, pend, rows) ==
  [exists |-> TRUE, header |-> f.header \/ pend, rows |-> f.rows \o rows]

\* the steps of the loop: one per seed row, two writes for the migration
Steps(fe, seed) == IF fe = MIGF THEN 2 ELSE Len(seed)

\* ------------------------------------------------------------ the runs
MaxSeed == 2
MaxRuns == 3
MaxKills == 2

Open == Term("Q1", "1995", "")
Closed == Term("Q2", "2005", "2015")

\* Spain's item is labelled in Portuguese, the seed names it in English
SeedRows ==
  {SeedRow("PRT", "Portugal", "Portugal", <<Open, Closed>>, <<Closed>>),
   SeedRow("ESP", "Spain", "Espanha", <<Closed>>, <<>>)}
Seeds == UNION {[1..n -> SeedRows] : n \in 1..MaxSeed}

XKeep == <<rvars, fvars, mvars, pvars, avars, nvars>>

XInit ==
  /\ fetcher \in Fetchers
  /\ seedx \in Seeds
  /\ outcsv = NoCsv
  /\ auxcsv = NoCsv
  /\ run = NoRun
  /\ nruns = 0
  /\ nkills = 0
  /\ rfile = NoFile
  /\ rsrc = NoSrc
  /\ rcall = NoCall
  /\ NIdle
  /\ FIdle
  /\ MIdle

\* main up to its loop: the output is opened, for appending or, by
\* fetch_leaders, for writing; fetch_cities_all writes and flushes its header
\* at once, the others leave it in the buffer
Run_Start ==
  /\ run.pc \in {"idle", "done"}
  /\ nruns < MaxRuns
  /\ nruns' = nruns + 1
  /\ CASE fetcher \in {WBF, COUNTRIES} ->
            /\ outcsv' = [outcsv EXCEPT !.exists = TRUE]
            /\ auxcsv' = auxcsv
            /\ run' = [pc |-> "loop", header |-> ~outcsv.exists, pend |-> ~outcsv.exists,
                       pend2 |-> FALSE, i |-> 1, done |-> {}]
       [] fetcher = CITIESF ->
            /\ outcsv' = [outcsv EXCEPT !.exists = TRUE, !.header = @ \/ ~outcsv.exists]
            /\ auxcsv' = auxcsv
            /\ run' = [pc |-> "loop", header |-> ~outcsv.exists, pend |-> FALSE,
                       pend2 |-> FALSE, i |-> 1, done |-> read_done_iso3(outcsv)]
       [] fetcher = LEADERSF ->
            /\ outcsv' = [exists |-> TRUE, header |-> FALSE, rows |-> <<>>]
            /\ auxcsv' = [exists |-> TRUE, header |-> FALSE, rows |-> <<>>]
            /\ run' = [pc |-> "loop", header |-> TRUE, pend |-> TRUE, pend2 |-> TRUE,
                       i |-> 1, done |-> {}]
       [] fetcher = MIGF ->
            /\ UNCHANGED <<outcsv, auxcsv>>
            /\ run' = [pc |-> "loop", header |-> TRUE, pend |-> FALSE, pend2 |-> FALSE,
                       i |-> 1, done |-> {}]
  /\ UNCHANGED <<fetcher, seedx, nkills>>
  /\ UNCHANGED XKeep

InLoop(fe) == fetcher = fe /\ run.pc = "loop" /\ run.i <= Steps(fe, seedx)

Stepped == UNCHANGED <<fetcher, seedx, nruns, nkills>> /\ UNCHANGED XKeep

\* fetch_worldbank_timeseries: the rows of the country, then flush
WB_Country ==
  /\ InLoop(WBF)
  /\ outcsv' = Flush(outcsv, run.pend, WbRows(seedx[run.i]))
  /\ run' = [run EXCEPT !.i = @ + 1, !.pend = FALSE]
  /\ auxcsv' = auxcsv
  /\ Stepped

\* extract_country_data: the skip test in a run that found the file, then
\* the row of the country
Countries_Row ==
  /\ InLoop(COUNTRIES)
  /\ IF ~run.header /\ PrevHas(outcsv, seedx[run.i].iso3, seedx[run.i].name)
     THEN /\ outcsv' = outcsv
          /\ run' = [run EXCEPT !.i = @ + 1]
     ELSE /\ outcsv' = Flush(outcsv, run.pend, CountryRows(seedx[run.i]))
          /\ run' = [run EXCEPT !.i = @ + 1, !.pend = FALSE]
  /\ auxcsv' = auxcsv
  /\ Stepped

\* fetch_cities_all with SKIP_DONE: a country of done is skipped
Cities_Country ==
  /\ InLoop(CITIESF)
  /\ IF seedx[run.i].iso3 \in run.done
     THEN /\ outcsv' = outcsv
          /\ run' = [run EXCEPT !.i = @ + 1]
     ELSE /\ outcsv' = Flush(outcsv, FALSE, CityRows(seedx[run.i]))
          /\ run' = [run EXCEPT !.i = @ + 1, !.done = @ \cup {seedx[run.i].iso3}]
  /\ auxcsv' = auxcsv
  /\ Stepped

\* fetch_leaders: the history rows of the country, flushed one by one, then
\* its current rows; a header waits until the first row of its file
Leaders_Country ==
  /\ InLoop(LEADERSF)
  /\ auxcsv' = IF HistRows(seedx[run.i]) = <<>> THEN auxcsv
               ELSE Flush(auxcsv, run.pend2, HistRows(seedx[run.i]))
  /\ outcsv' = IF CurrRows(seedx[run.i]) = <<>> THEN outcsv
               ELSE Flush(outcsv, run.pend, CurrRows(seedx[run.i]))
  /\ run' = [run EXCEPT !.i = @ + 1,
                        !.pend = @ /\ CurrRows(seedx[run.i]) = <<>>,
                        !.pend2 = @ /\ HistRows(seedx[run.i]) = <<>>]
  /\ Stepped

\* fetch_migration_inout: migration_inout_m49.csv, then migration_inout.csv,
\* each emptied and written whole
Mig_Write ==
  /\ InLoop(MIGF)
  /\ IF run.i = 1
     THEN /\ auxcsv' = [exists |-> TRUE, header |-> TRUE, rows |-> MigRows(seedx)]
          /\ outcsv' = outcsv
     ELSE /\ outcsv' = [exists |-> TRUE, header |-> TRUE, rows |-> MigRows(seedx)]
          /\ auxcsv' = auxcsv
  /\ run' = [run EXCEPT !.i = @ + 1]
  /\ Stepped

\* the loop is over: the files are closed, a header still waiting is written
Run_Finish ==
  /\ run.pc = "loop"
  /\ run.i > Steps(fetcher, seedx)
  /\ outcsv' = [outcsv EXCEPT !.header = @ \/ run.pend]
  /\ auxcsv' = [auxcsv EXCEPT !.header = @ \/ run.pend2]
  /\ run' = [run EXCEPT !.pc = "done", !.pend = FALSE, !.pend2 = FALSE]
  /\ Stepped

\* the rows the step in progress hands to the writer of the output, in order
\* (none when the loop is over or the country is skipped)
Writing ==
  IF run.i > Steps(fetcher, seedx) THEN <<>>
  ELSE CASE fetcher = WBF -> WbRows(seedx[run.i])
         [] fetcher = COUNTRIES -> <<>>
         [] fetcher = CITIESF ->
              IF seedx[run.i].iso3 \in run.done THEN <<>> ELSE CityRows(seedx[run.i])
         [] fetcher = LEADERSF -> HistRows(seedx[run.i])
         [] fetcher = MIGF -> <<>>

\* the run is killed after the n-th of these rows went to the writer: what
\* waits in a buffer reaches the file (an interrupt: the file is closed on the
\* way out) or is lost (a kill signal); the history rows of fetch_leaders
\* were flushed one by one
Run_Kill ==
  /\ run.pc = "loop"
  /\ nkills < MaxKills
  /\ nkills' = nkills + 1
  /\ \E n \in 0..Len(Writing), flushed \in BOOLEAN :
       /\ n < Len(Writing) \/ n = 0 \/ fetcher = LEADERSF
       /\ IF fetcher = LEADERSF
          THEN /\ auxcsv' = IF n = 0 THEN [auxcsv EXCEPT !.header = @ \/ (flushed /\ run.pend2)]
                            ELSE Flush(auxcsv, run.pend2, SubSeq(Writing, 1, n))
               /\ outcsv' = [outcsv EXCEPT !.header = @ \/ (flushed /\ run.pend)]
          ELSE /\ outcsv' = IF flushed THEN Flush(outcsv, run.pend, SubSeq(Writing, 1, n))
                            ELSE outcsv
               /\ auxcsv' = auxcsv
  /\ run' = NoRun
  /\ UNCHANGED <<fetcher, seedx, nruns>>
  /\ UNCHANGED XKeep

FetchNext ==
  \/ Run_Start
  \/ WB_Country
  \/ Countries_Row
  \/ Cities_Country
  \/ Leaders_Country
  \/ Mig_Write
  \/ Run_Finish
  \/ Run_Kill

SpecFetch == XInit /\ [][FetchNext]_vars

\* ------------------------------------------------ fetch_leaders on its own
\* The seed as exec_build_country_seed writes it (one row per alpha_3), with
\* every answer of up to MaxTerms bindings for the head of government.
MaxTerms == 2

Terms ==
  {Term("Q1", "1995", ""), Term("Q2", "2005", ""), Term("Q3", "1995", "2015"),
   Term("Q4", "2005", "2015"), Term("Q5", "", ""), Term("Q6", "", "2015"),
   Term("Q1", "1995", "2015")}
Bindings == UNION {[1..n -> Terms] : n \in 0..MaxTerms}
HeadBindings == {<<>>, <<Closed>>, <<Closed, Open>>}

LSeeds ==
  {<<SeedRow("PRT", "Portugal", "Portugal", g, h)>> : g \in Bindings, h \in HeadBindings}
  \cup {<<SeedRow("ESP", "Spain", "Espanha", <<Closed>>, h), SeedRow("PRT", "Portugal", "Portugal", g, <<>>)>> :
          g \in Bindings, h \in HeadBindings}

LInit ==
  /\ fetcher = LEADERSF
  /\ seedx \in LSeeds
  /\ outcsv = NoCsv
  /\ auxcsv = NoCsv
  /\ run = NoRun
  /\ nruns = 0
  /\ nkills = 0
  /\ rfile = NoFile
  /\ rsrc = NoSrc
  /\ rcall = NoCall
  /\ NIdle
  /\ FIdle
  /\ MIdle

LeadersNext ==
  \/ Run_Start
  \/ Leaders_Country
  \/ Run_Finish
  \/ Run_Kill

SpecLeaders == LInit /\ [][LeadersNext]_vars

\* ------------------------------------------------------------ C18 .. C20
SeqCount(s, r) == Cardinality({n \in 1..Len(s) : s[n] = r})
SeqRange(s) == {s[n] : n \in 1..Len(s)}
SameRows(a, b) == \A r \in SeqRange(a) \cup SeqRange(b) : SeqCount(a, r) = SeqCount(b, r)

\* C18: whatever runs of extract_country_data.main went before, complete or
\* cut short, countries_profiles.csv holds at most one row per iso3.
C18_OneRowPerIso3 ==
  fetcher = COUNTRIES
    => \A m, n \in 1..Len(outcsv.rows) :
         outcsv.rows[m].iso3 = outcsv.rows[n].iso3 => m = n

\* the seed rows main has been through in the run
Processed == IF run.pc = "done" THEN 1..Len(seedx) ELSE 1..(run.i - 1)
Collected(j, role) == SeqRange(seedx[j].terms[role])
Rank(start) == IndexOf(StartOrder, start)
CurrentRowsOf(iso3, role) ==
  SelectSeq(outcsv.rows, LAMBDA r : r.iso3 = iso3 /\ r.k[1] = role)
Latest(r, T) == \A u \in T : Rank(u.start) <= Rank(r.k[3])

\* C19: for every country main has been through and every role with a term
\* collected, leaders_current.csv holds exactly one row; it is one of the
\* collected terms, an open-ended one of the latest start among the
\* open-ended ones when there is any, the one of the latest start otherwise;
\* a role without terms has no row.
C19_CurrentLeader ==
  (fetcher = LEADERSF /\ run.pc \in {"loop", "done"})
    => \A j \in Processed : \A role \in SeqRange(Roles) :
         IF Collected(j, role) = {}
         THEN CurrentRowsOf(seedx[j].iso3, role) = <<>>
         ELSE /\ Len(CurrentRowsOf(seedx[j].iso3, role)) = 1
              /\ \E t \in Collected(j, role) :
                   CurrentRowsOf(seedx[j].iso3, role)[1] = TermRow(seedx[j].iso3, role, t)
              /\ IF \E u \in Collected(j, role) : u.end = ""
                 THEN /\ CurrentRowsOf(seedx[j].iso3, role)[1].k[4] = ""
                      /\ Latest(CurrentRowsOf(seedx[j].iso3, role)[1],
                                {u \in Collected(j, role) : u.end = ""})
                 ELSE Latest(CurrentRowsOf(seedx[j].iso3, role)[1], Collected(j, role))

\* a finished run over a country whose head of government has an open term
\* and a closed one of a later start: the open one is the current row
C19_Witness ==
  /\ fetcher = LEADERSF
  /\ run.pc = "done"
  /\ \E j \in 1..Len(seedx) :
       /\ Term("Q1", "1995", "") \in Collected(j, Roles[1])
       /\ Term("Q4", "2005", "2015") \in Collected(j, Roles[1])
       /\ CurrentRowsOf(seedx[j].iso3, Roles[1])
            = <<TermRow(seedx[j].iso3, Roles[1], Term("Q1", "1995", ""))>>

\* what one run from no files to its end leaves behind
RECURSIVE CitiesOnce(_, _)
CitiesOnce(seed, done) ==
  IF seed = <<>> THEN <<>>
  ELSE IF Head(seed).iso3 \in done THEN CitiesOnce(Tail(seed), done)
       ELSE CityRows(Head(seed)) \o CitiesOnce(Tail(seed), done \cup {Head(seed).iso3})

RECURSIVE WbOnce(_)
WbOnce(seed) == IF seed = <<>> THEN <<>> ELSE WbRows(Head(seed)) \o WbOnce(Tail(seed))

RECURSIVE CountriesOnce(_)
CountriesOnce(seed) ==
  IF seed = <<>> THEN <<>> ELSE CountryRows(Head(seed)) \o CountriesOnce(Tail(seed))

RECURSIVE CurrOnce(_)
CurrOnce(seed) == IF seed = <<>> THEN <<>> ELSE CurrRows(Head(seed)) \o CurrOnce(Tail(seed))

RECURSIVE HistOnce(_)
HistOnce(seed) == IF seed = <<>> THEN <<>> ELSE HistRows(Head(seed)) \o HistOnce(Tail(seed))

Uninterrupted(fe, seed) ==
  CASE fe = WBF -> WbOnce(seed)
    [] fe = COUNTRIES -> CountriesOnce(seed)
    [] fe = CITIESF -> CitiesOnce(seed, {})
    [] fe = LEADERSF -> CurrOnce(seed)
    [] fe = MIGF -> MigRows(seed)

UninterruptedAux(fe, seed) ==
  CASE fe = LEADERSF -> HistOnce(seed)
    [] fe = MIGF -> MigRows(seed)
    [] OTHER -> <<>>

\* C20: a run killed between two writes and then a run to the end leave the
\* output with its header and the rows of one uninterrupted run, each once.
C20_Recoverable ==
  (run.pc = "done" /\ nkills = 1 /\ nruns = 2)
    => /\ outcsv.header
       /\ SameRows(outcsv.rows, Uninterrupted(fetcher, seedx))
       /\ SameRows(auxcsv.rows, UninterruptedAux(fetcher, seedx))

\* ------------------------------------------------------------ C21
AnyReaders == {"_read_csv_safe_any", "read_csv_safe_any"}
Sniffed == <<"utf-8", "sniff">>
EachSep(encs) ==
  [n \in 1..(3 * Len(encs)) |->
     <<encs[((n - 1) \div 3) + 1], <<COMMA, SEMI, TAB>>[((n - 1) % 3) + 1]>>]
Utf16Seen(f) == f.bom = "utf16" \/ f.wide

\* the call tried the combinations of order from its first on, none after
\* the first that parsed, and returned the frame of that one (no columns and
\* no rows when the whole of order failed)
FollowsOrder(order) ==
  /\ Len(rcall.tried) >= 1
  /\ Len(rcall.tried) <= Len(order)
  /\ \A i \in 1..Len(rcall.tried) : rcall.tried[i] = order[i]
  /\ \A i \in 1..(Len(rcall.tried) - 1) :
       ~pd_read_csv(rcall.file, rcall.tried[i][1], rcall.tried[i][2]).ok
  /\ ~rcall.res.raised
  /\ IF pd_read_csv(rcall.file, rcall.tried[Len(rcall.tried)][1], rcall.tried[Len(rcall.tried)][2]).ok
     THEN rcall.res.frame =
            pd_read_csv(rcall.file, rcall.tried[Len(rcall.tried)][1], rcall.tried[Len(rcall.tried)][2])
     ELSE Len(rcall.tried) = Len(order) /\ rcall.res.frame = EmptyFrame(<<>>)

ReadAnyCall == rcall.fn \in AnyReaders /\ rcall.file.exists /\ ~IsBlankRaw(rcall.file)

ClaimedOrder(f) ==
  EachSep(<<"utf-8", "utf-8-sig">> \o (IF Utf16Seen(f) THEN <<"utf-16">> ELSE <<>>)
          \o <<"cp1252", "latin1">>) \o <<Sniffed>>

\* C21 (as claimed): _read_csv_safe_any and read_csv_safe_any try the
\* encodings utf-8, utf-8 with BOM, utf-16 (when a UTF-16 mark or a NUL byte
\* is seen), cp1252, latin-1 in that order, each with ',', ';', tab; the frame
\* returned is that of the first combination that parses and none is tried
\* after it.
C21_AttemptOrder == ReadAnyCall => FollowsOrder(ClaimedOrder(rcall.file))

CodeOrder(fn, f) ==
  IF fn = "read_csv_safe_any"
  THEN <<(<<"utf-8", SEMI>>), (<<"utf-8", COMMA>>), (<<"utf-8", TAB>>), Sniffed>>
  ELSE EachSep((IF Utf16Seen(f) THEN <<"utf-16", "utf-16le", "utf-16be">> ELSE <<>>)
               \o <<"utf-8-sig", "utf-8", "cp1252", "latin1">>) \o <<Sniffed>>

\* C21 (amended): _read_csv_safe_any tries utf-16, utf-16le, utf-16be first
\* (only when a UTF-16 mark or a NUL byte is seen), then utf-8 with BOM,
\* utf-8, cp1252, latin-1, each with ',', ';', tab; read_csv_safe_any tries
\* utf-8 only, with ';', ',', tab; both end with utf-8 and a sniffed
\* separator; the frame returned is that of the first combination that parses
\* and none is tried after it.
C21_AttemptOrderOfCode == ReadAnyCall => FollowsOrder(CodeOrder(rcall.fn, rcall.file))

\* _read_csv_safe_any on a ';' table with a comma in a cell: ',' fails, ';'
\* is the second and last combination tried
C21_Witness ==
  /\ rcall.fn = "_read_csv_safe_any"
  /\ rcall.src.kind = "table"
  /\ rcall.tried = <<(<<"utf-8-sig", COMMA>>), (<<"utf-8-sig", SEMI>>)>>
  /\ rcall.res.frame.cols = rcall.src.table.cols
  /\ rcall.res.frame.rows = rcall.src.table.rows

\* ====================================================== request helpers
\* The retry loops of the fetch scripts: for attempt in range(n): try: get,
\* raise_for_status, return / break; except Exception: sleep.
Helpers ==
  {"_fetch", "_sparql", "sparql_post", "wd_get_labels", "fetch_indicator",
   "fetch_wdi_indicator", "estat_query", "_fetch_indicator"}

\* range(n) of the loop
Attempts_5(fn) == IF fn = "_fetch" THEN 5 ELSE 4

Attempts(fn) ==
  CASE fn = "_fetch" -> 4
    [] fn = "_sparql" -> 3
    [] fn = "sparql_post" -> 4
    [] fn = "wd_get_labels" -> 3
    [] fn = "fetch_indicator" -> 2
    [] fn = "fetch_wdi_indicator" -> 5
    [] fn = "estat_query" -> 4
    [] fn = "_fetch_indicator" -> 5

\* the helpers that walk the pages of the answer inside an attempt
Paged == {"fetch_wdi_indicator", "_fetch_indicator"}
\* ... and the one that loops over chunks of 50 ids around its attempts
Chunked == {"wd_get_labels"}

\* the ways a request can end, as the helper tells them apart: estat_query
\* sleeps and goes on at status 413, sparql_post posts again as a form at
\* status 400
Answers(fn) ==
  {"ok", "fail"} \cup (IF fn = "estat_query" THEN {"413"} ELSE {})
                 \cup (IF fn = "sparql_post" THEN {"400"} ELSE {})

\* the value handed back when the loop runs out, with an exception in its place
OnExhaust_raise(fn) == "raised"

\* the value handed back when the loop runs out
OnExhaust(fn) ==
  IF fn \in {"_fetch", "_sparql", "sparql_post"} THEN "None" ELSE "empty"

\* page p of the answer holds observation p
PageRows(p) == <<p>>

MaxPages == 2

\* the helper is called
Req_Call ==
  \E fn \in Helpers, n \in 1..MaxPages :
    /\ req.pc \in {"idle", "done"}
    /\ (fn \notin Paged \cup Chunked) => n = 1
    /\ req' = [NoReq EXCEPT !.fn = fn, !.pc = "get", !.pages = n,
                            !.page = IF fn \in Chunked THEN 1 ELSE 0]
    /\ UNCHANGED ReqKeep

\* the return of a paged helper after the last page: fetch_wdi_indicator
\* builds its rows from allrows, _fetch_indicator from out
Returned(r) ==
  [r EXCEPT !.pc = "done", !.res = "body",
            !.rows = IF r.fn = "_fetch_indicator" THEN r.out ELSE r.got]

\* page p has arrived: allrows = list(data) / allrows.extend in
\* fetch_wdi_indicator, out.extend in _fetch_indicator; the next page or
\* the end of the attempt
PageIn(r, p) ==
  IF p = r.pages
  THEN Returned([r EXCEPT !.got = IF p = 1 THEN PageRows(1) ELSE @ \o PageRows(p),
                          !.out = IF r.fn = "_fetch_indicator" THEN @ \o PageRows(p) ELSE @])
  ELSE [r EXCEPT !.pc = "page", !.page = p + 1,
                 !.got = IF p = 1 THEN PageRows(1) ELSE @ \o PageRows(p),
                 !.out = IF r.fn = "_fetch_indicator" THEN @ \o PageRows(p) ELSE @]

\* a chunk of wd_get_labels is over (break, or its attempts are used up):
\* the next chunk, or return out
ChunkOver(r) ==
  IF r.page = r.pages
  THEN [r EXCEPT !.pc = "done", !.res = IF r.out = <<>> THEN "empty" ELSE "body", !.rows = r.out]
  ELSE [r EXCEPT !.pc = "get", !.page = @ + 1, !.attempt = 0]

\* the request of an attempt and what the helper does with its answer
Answered(r, o) ==
  CASE o = "ok" /\ r.fn \in Paged -> PageIn(r, 1)
    [] o = "ok" /\ r.fn \in Chunked -> ChunkOver([r EXCEPT !.out = @ \o PageRows(r.page)])
    [] o = "ok" /\ r.fn \notin Paged \cup Chunked -> [r EXCEPT !.pc = "done", !.res = "body"]
    [] o = "400" -> [r EXCEPT !.pc = "get2"]
    [] o \in {"fail", "413"} -> [r EXCEPT !.pc = "sleep"]

Sent(r, o) == [r EXCEPT !.gets = @ + 1, !.trace = Append(@, o)]

Req_Get ==
  /\ req.pc = "get"
  /\ \E o \in Answers(req.fn) : req' = Answered(Sent(req, o), o)
  /\ UNCHANGED ReqKeep

\* sparql_post, status 400: the query posted again as a form
Req_Get2 ==
  /\ req.pc = "get2"
  /\ \E o \in {"ok", "fail"} : req' = Answered(Sent(req, o), o)
  /\ UNCHANGED ReqKeep

\* a further page inside the attempt
Req_Page ==
  /\ req.pc = "page"
  /\ \E o \in {"ok", "fail"} :
       req' = IF o = "ok" THEN PageIn(Sent(req, o), req.page)
              ELSE [Sent(req, o) EXCEPT !.pc = "sleep"]
  /\ UNCHANGED ReqKeep

\* except Exception: time.sleep(...), then the next attempt, or what follows
\* the loop when this was the last one
Slept(r) == [r EXCEPT !.sleeps = @ + 1, !.trace = Append(@, "sleep")]

Req_Sleep ==
  /\ req.pc = "sleep"
  /\ req' = IF req.attempt + 1 < Attempts(req.fn)
            THEN [Slept(req) EXCEPT !.pc = "get", !.attempt = @ + 1]
            ELSE IF req.fn \in Chunked THEN ChunkOver(Slept(req))
            ELSE [Slept(req) EXCEPT !.pc = "done", !.res = OnExhaust(req.fn)]
  /\ UNCHANGED ReqKeep

RetryInit == RIdle /\ FIdle /\ MIdle

RetryNext ==
  \/ Req_Call
  \/ Req_Get
  \/ Req_Get2
  \/ Req_Page
  \/ Req_Sleep

\* a call in progress goes on: a request ends (timeout=...), a sleep ends
SpecRetry == RetryInit /\ [][RetryNext]_vars /\ WF_vars(Req_Get \/ Req_Get2 \/ Req_Page \/ Req_Sleep)

\* ------------------------------------------------------------ C22, C25, C28
IsGet(e) == e \in {"ok", "fail", "413", "400"}
Last(s) == s[Len(s)]
Returns == req.pc = "done"
InCall == req.pc \notin {"idle", "done"}

\* a sleep lies between any two requests of the call
SleepBetween ==
  \A i, j \in 1..Len(req.trace) :
    (i < j /\ IsGet(req.trace[i]) /\ IsGet(req.trace[j]))
      => \E k \in (i + 1)..(j - 1) : req.trace[k] = "sleep"

\* C22: a call of _fetch issues at most 4 GET requests, with a sleep between
\* any two; it returns the body at the first request that succeeds, with no
\* request after it, and None when 4 requests have failed; and every call
\* returns.
C22_FetchBounded ==
  /\ [](req.fn = "_fetch"
         => /\ req.gets <= 4
            /\ SleepBetween
            /\ \A i \in 1..Len(req.trace) :
                 req.trace[i] = "ok" => (i = Len(req.trace) /\ Returns /\ req.res = "body")
            /\ Returns =>
                 \/ req.res = "body" /\ Last(req.trace) = "ok"
                 \/ /\ req.res = "None"
                    /\ req.gets = 4
                    /\ \A i \in 1..Len(req.trace) : req.trace[i] # "ok")
  /\ ((req.fn = "_fetch" /\ InCall) ~> (req.fn = "_fetch" /\ Returns))

\* two requests fail, the third succeeds and ends the call
C22_Witness ==
  /\ req.fn = "_fetch"
  /\ Returns
  /\ req.res = "body"
  /\ req.trace = <<"fail", "sleep", "fail", "sleep", "ok">>

\* the helpers C25 names, and the requests one attempt of each can make
Named == Helpers \ {"_fetch"}
PerAttempt(fn, n) ==
  IF fn \in Paged THEN n ELSE IF fn = "sparql_post" THEN 2 ELSE 1
Loops(fn, n) == IF fn \in Chunked THEN n ELSE 1

\* the attempt that ends at event i of the trace has succeeded: its last
\* request, and with pages every request of it, was answered
Succeeded(i) ==
  /\ i >= req.pages
  /\ \A k \in 0..(req.pages - 1) : req.trace[i - k] = "ok"

C28_RetryKeepsNoRows ==
  (req.fn \in Paged /\ Returns /\ req.res = "body")
    => req.rows = [p \in 1..req.pages |-> p]

\* ======================================================== _read_container
\* names of ZIP entries, and the tests the code makes on them
Entries == {"xl/workbook.xml", "[Content_Types].xml", "a.xlsx", "b.XLS", "c.csv", "readme.txt"}
IsWorkbookPart(n) == n = "xl/workbook.xml" \/ n = "[Content_Types].xml"
EndsXlsx(n) == n \in {"a.xlsx", "b.XLS"}
EndsCsv(n) == n = "c.csv"

FirstWhere(names, ok) == names[CHOOSE i \in 1..Len(names) : ok[names[i]] /\ \A j \in 1..(i - 1) : ~ok[names[j]]]
AnyWhere(names, ok) == \E i \in 1..Len(names) : ok[names[i]]

Pair(xlsx, csv) == [raised |-> FALSE, xlsx |-> xlsx, csv |-> csv]

\* _read_container(blob) on the bytes themselves: "blob" stands for the
\* bytes given, an entry name for z.read(name)
_read_container_bytes(b) ==
  IF b.zip
  THEN IF AnyWhere(b.names, [n \in Entries |-> IsWorkbookPart(n)]) THEN Pair("blob", "None")
       ELSE IF AnyWhere(b.names, [n \in Entries |-> EndsXlsx(n)])
            THEN Pair(FirstWhere(b.names, [n \in Entries |-> EndsXlsx(n)]), "None")
       ELSE IF AnyWhere(b.names, [n \in Entries |-> EndsCsv(n)])
            THEN Pair("None", FirstWhere(b.names, [n \in Entries |-> EndsCsv(n)]))
       ELSE [raised |-> TRUE, xlsx |-> "None", csv |-> "None"]
  ELSE IF b.comma /\ b.nl THEN Pair("None", "blob")
  ELSE Pair("blob", "None")

MaxNames == 3

ZipBlobs ==
  {[NoBlob EXCEPT !.zip = TRUE, !.names = ns] : ns \in UNION {[1..n -> Entries] : n \in 0..MaxNames}}
\* a CSV text has lines; with ',' as separator it holds commas, with ';' it
\* may (decimal commas, names)
CsvBlobs ==
  {[NoBlob EXCEPT !.what = "csv", !.sep = COMMA, !.comma = TRUE, !.nl = TRUE]}
  \cup {[NoBlob EXCEPT !.what = "csv", !.sep = SEMI, !.comma = c, !.nl = TRUE] : c \in BOOLEAN}
\* anything else: an HTML page, a PDF, a truncated download
OtherBlobs ==
  {[NoBlob EXCEPT !.what = "other", !.comma = c, !.nl = n] : c \in BOOLEAN, n \in BOOLEAN}

\* xlsx_bytes, csv_bytes = _read_container(blob)
Unwrap ==
  \E b \in ZipBlobs \cup CsvBlobs \cup OtherBlobs :
    /\ box' = [called |-> TRUE, blob |-> b, raised |-> _read_container_bytes(b).raised,
               xlsx |-> _read_container_bytes(b).xlsx, csv |-> _read_container_bytes(b).csv]
    /\ UNCHANGED BoxKeep

UnwrapInit == RIdle /\ FIdle /\ MIdle
SpecUnwrap == UnwrapInit /\ [][Unwrap]_vars

\* what a blob is
NamesOf(b) == {b.names[i] : i \in 1..Len(b.names)}
RawXlsx(b) == b.zip /\ "xl/workbook.xml" \in NamesOf(b)
ZipOfXlsx(b) == b.zip /\ ~RawXlsx(b) /\ \E n \in NamesOf(b) : EndsXlsx(n)
ZipOfCsvOnly(b) == b.zip /\ ~RawXlsx(b) /\ ~ZipOfXlsx(b) /\ \E n \in NamesOf(b) : EndsCsv(n)
BareCsv(b) == ~b.zip /\ b.what = "csv"

\* C24: _read_container returns a pair with exactly one member that is not
\* None: (blob, None) for a raw XLSX, (an inner XLSX, None) for a ZIP that
\* wraps one, (None, an inner CSV) for a ZIP that wraps only a CSV,
\* (None, blob) for a bare CSV text with ',' or ';'; bytes that are none of
\* these are not handed back as XLSX.
C24_ContainerKinds ==
  box.called =>
    /\ ~box.raised
    /\ (box.xlsx = "None") # (box.csv = "None")
    /\ RawXlsx(box.blob) => box.xlsx = "blob"
    /\ ZipOfXlsx(box.blob) => (box.xlsx \in NamesOf(box.blob) /\ EndsXlsx(box.xlsx))
    /\ ZipOfCsvOnly(box.blob) => (box.csv \in NamesOf(box.blob) /\ EndsCsv(box.csv))
    /\ BareCsv(box.blob) => box.csv = "blob"
    /\ ~(RawXlsx(box.blob) \/ ZipOfXlsx(box.blob) \/ ZipOfCsvOnly(box.blob) \/ BareCsv(box.blob))
         => box.xlsx = "None"

\* ====================================================== _find_download_url
\* An anchor: the URL it points to, what its text says ("dao" for
\* 'destination and origin', "kw" for one of the words that make a link
\* worth following, "origin", "total", "plain"), whether the URL ends in
\* .xlsx/.xls/.zip/.csv, and the year 20xx in text or href (0 for none).
Anchor(to, text, file, year) == [to |-> to, text |-> text, file |-> file, year |-> year]

\* _score(text, href)
_score(a) ==
  (IF a.text = "dao" THEN 80 + 10 ELSE 0)
  + (IF a.text = "total" THEN 0 - 50 ELSE 0)
  + (IF a.file THEN 15 ELSE 0)
  + (IF a.year > 0 THEN a.year - 1990 ELSE 0)

\* the test of the second loop over the anchors: a word of the list in the
\* text and no file extension
Followed(a) == a.text \in {"dao", "kw", "origin"} /\ ~a.file

\* best after the anchors of a page: a later anchor wins with a greater score
RECURSIVE BestOver(_, _)
BestOver(best, anchors) ==
  IF anchors = <<>> THEN best
  ELSE BestOver(IF ~best.some \/ _score(Head(anchors)) > best.sc
                THEN [some |-> TRUE, sc |-> _score(Head(anchors)), url |-> Head(anchors).to,
                      text |-> Head(anchors).text, file |-> Head(anchors).file]
                ELSE best,
                Tail(anchors))

\* the test on visited with every link taken for new
IsNew_always(visited, url) == TRUE

\* if url_abs not in visited
IsNew(visited, url) == url \notin visited

\* the links of a page that go to next_frontier, in order
RECURSIVE NewLinks(_, _)
NewLinks(visited, anchors) ==
  IF anchors = <<>> THEN <<>>
  ELSE IF Followed(Head(anchors)) /\ IsNew(visited, Head(anchors).to)
       THEN <<Head(anchors).to>> \o NewLinks(visited \cup {Head(anchors).to}, Tail(anchors))
       ELSE NewLinks(visited, Tail(anchors))

\* best is a data file whose text holds 'destination and origin'
GoodEnough(best) == best.some /\ best.file /\ best.text = "dao"

MaxAnchors == 2
MaxDepth == 2

Pages == {"start", "p1", "p2"}
F1 == Anchor("f1", "dao", TRUE, 2020)
F2 == Anchor("f2", "dao", TRUE, 2024)
F3 == Anchor("f3", "origin", TRUE, 2024)
F4 == Anchor("f4", "total", TRUE, 2024)
Anchors ==
  {Anchor(p, "kw", FALSE, 0) : p \in Pages}
  \cup {Anchor("p2", "plain", FALSE, 0), Anchor("p1", "dao", FALSE, 0), F1, F2, F3, F4}

Webs ==
  {[anchors |-> [start |-> s, p1 |-> a, p2 |-> b], down |-> d, max_depth |-> m] :
     s \in UNION {[1..n -> Anchors] : n \in 0..MaxAnchors},
     a \in {<<>>, <<Anchor("start", "kw", FALSE, 0)>>, <<F2>>, <<Anchor("p2", "kw", FALSE, 0), F3>>},
     b \in {<<>>, <<F2>>, <<Anchor("p1", "kw", FALSE, 0), F4>>},
     d \in {{}, {"p1"}},
     m \in 0..MaxDepth}

CrawlInit ==
  /\ web \in Webs
  /\ crawl = NoCrawl
  /\ exported = NoExport
  /\ stmod = NoSt
  /\ req = NoReq
  /\ box = NoBox
  /\ rfile = NoFile
  /\ rsrc = NoSrc
  /\ rcall = NoCall
  /\ XIdle
  /\ FIdle
  /\ MIdle

\* _find_download_url(start_url, max_depth) up to its loop
Crawl_Call ==
  /\ crawl.pc = "idle"
  /\ crawl' = [NoCrawl EXCEPT !.pc = "while", !.visited = {"start"}, !.frontier = <<"start">>]
  /\ UNCHANGED CrawlKeep

\* while frontier and depth <= max_depth
Crawl_While ==
  /\ crawl.pc = "while"
  /\ crawl' = IF crawl.frontier # <<>> /\ crawl.depth <= web.max_depth
              THEN [crawl EXCEPT !.pc = "for", !.todo = crawl.frontier, !.next = <<>>]
              ELSE [crawl EXCEPT !.pc = "fallback"]
  /\ UNCHANGED CrawlKeep

\* one url of the frontier: _get_html(url), then the two loops over its
\* anchors; a page that does not answer is passed over
Crawl_Page ==
  /\ crawl.pc = "for"
  /\ crawl.todo # <<>>
  /\ crawl' =
       IF Head(crawl.todo) \in web.down
       THEN [crawl EXCEPT !.todo = Tail(@), !.fetched = Append(@, Head(crawl.todo))]
       ELSE [crawl EXCEPT
               !.todo = Tail(@),
               !.fetched = Append(@, Head(crawl.todo)),
               !.best = BestOver(@, web.anchors[Head(crawl.todo)]),
               !.next = @ \o NewLinks(crawl.visited, web.anchors[Head(crawl.todo)]),
               !.visited = @ \cup SeqToSet(NewLinks(crawl.visited, web.anchors[Head(crawl.todo)]))]
  /\ UNCHANGED CrawlKeep

\* after the urls of a level: return as soon as best is good enough, else
\* the next level
Crawl_LevelEnd ==
  /\ crawl.pc = "for"
  /\ crawl.todo = <<>>
  /\ crawl' = IF GoodEnough(crawl.best)
              THEN [crawl EXCEPT !.pc = "done", !.res = crawl.best.url]
              ELSE [crawl EXCEPT !.pc = "while", !.frontier = crawl.next, !.depth = @ + 1]
  /\ UNCHANGED CrawlKeep

\* after the loop: the best link when it is a data file not called 'total'
Crawl_Fallback ==
  /\ crawl.pc = "fallback"
  /\ crawl' = IF crawl.best.some /\ crawl.best.file /\ crawl.best.text # "total"
              THEN [crawl EXCEPT !.pc = "done", !.res = crawl.best.url]
              ELSE [crawl EXCEPT !.pc = "done", !.res = "None"]
  /\ UNCHANGED CrawlKeep

CrawlNext ==
  \/ Crawl_Call
  \/ Crawl_While
  \/ Crawl_Page
  \/ Crawl_LevelEnd
  \/ Crawl_Fallback

SpecCrawl == CrawlInit /\ [][CrawlNext]_vars /\ WF_vars(CrawlNext)

\* ------------------------------------------------------------ C23
\* the pages at most d followed links from start_url, through pages that answer
RECURSIVE Within(_)
Within(d) ==
  IF d = 0 THEN {"start"}
  ELSE Within(d - 1)
       \cup {a.to : a \in {a \in UNION {SeqToSet(web.anchors[p]) : p \in Within(d - 1) \ web.down} :
                             Followed(a)}}

AnchorsOf(pages) == UNION {SeqToSet(web.anchors[p]) : p \in pages \ web.down}
Fetched == SeqToSet(crawl.fetched)
FetchedOnce == \A i, j \in 1..Len(crawl.fetched) : crawl.fetched[i] = crawl.fetched[j] => i = j
Crawled == crawl.pc = "done"

\* the URL returned is that of an anchor of these pages that no anchor of
\* them outscores
BestAmong(pages) ==
  \E a \in AnchorsOf(pages) :
    /\ a.to = crawl.res
    /\ \A b \in AnchorsOf(pages) : _score(b) <= _score(a)

HistoryKey(r) == <<r.iso3, r.k[1], r.k[2], r.k[3]>>

\* C26: after a run of fetch_leaders.main that emptied the files first,
\* leaders_history.csv holds no two rows of the same (iso3, role, person_qid,
\* start), whatever bindings the queries returned.
C26_HistoryKey ==
  (fetcher = LEADERSF /\ run.pc = "done")
    => \A m, n \in 1..Len(auxcsv.rows) :
         HistoryKey(auxcsv.rows[m]) = HistoryKey(auxcsv.rows[n]) => m = n

\* -------------------------------------- the frames read_csv_filtered hands out
FilteredFns == AccessorFns \cup {"read_csv_filtered"}

\* C29: a call of read_csv_filtered, or of an accessor over it, that repeats
\* the key of an earlier call is handed a frame, and the frame has the
\* content the earlier call was handed after the scan: what the callers
\* assigned to the columns of the frame they received has changed nothing.
C29_CacheIsolation ==
  (fcall.fn \in FilteredFns /\ fcall.repeat)
    => /\ ~fcall.res.raised
       /\ ~fcall.first.raised
       /\ fcall.res.frame = fcall.first.frame

\* ============================================ utils/streamlit_compat.py
\* A function value: an original of Streamlit, or the _wrap_btn defined in
\* the call of patch_streamlit whose local _orig_btn is the cell of that
\* number. _wrap_btn reads _orig_btn when it is called, not when it is made.
ButtonNames == <<"download_button", "form_submit_button", "button">>
Orig(name) == [kind |-> "orig", of |-> name, cell |-> 0]
WrapBtn(k) == [kind |-> "_wrap_btn", of |-> "", cell |-> k]
Unbound == [kind |-> "unbound", of |-> "", cell |-> 0]

\* the keywords of a call, by name
KwNames == {"label", "width", "use_container_width"}
\* the versions of Streamlit: the buttons the module has
Installed ==
  {{"download_button", "form_submit_button", "button"}, {"download_button", "button"},
   {"form_submit_button", "button"}}
MaxPatches == 2

\* a call of the function value fv with the keywords kw: the original it
\* ends in and the keywords that one receives
RECURSIVE Forwarded(_, _, _)
Forwarded(fv, kw, cells) ==
  IF fv.kind = "orig" THEN [to |-> fv.of, kw |-> kw]
  ELSE IF fv.kind = "_wrap_btn"
  THEN Forwarded(cells[fv.cell], kw \ {"width", "use_container_width"}, cells)
  ELSE [to |-> "NameError", kw |-> kw]

StInit ==
  /\ stmod \in {[has |-> h, attr |-> [n \in h |-> Orig(n)], cells |-> <<>>, pc |-> 0,
                 call |-> NoBtnCall] : h \in Installed}
  /\ exported = NoExport
  /\ req = NoReq
  /\ box = NoBox
  /\ web = NoWeb
  /\ crawl = NoCrawl
  /\ rfile = NoFile
  /\ rsrc = NoSrc
  /\ rcall = NoCall
  /\ XIdle
  /\ FIdle
  /\ MIdle

\* app.py line 17, on every run of the script: patch_streamlit() is entered
\* with fresh locals (lines 34-87 rebind plotly_chart, altair_chart,
\* dataframe and table, which the buttons do not read)
Patch_Call ==
  /\ stmod.pc = 0
  /\ Len(stmod.cells) < MaxPatches
  /\ stmod' = [stmod EXCEPT !.cells = Append(@, Unbound), !.pc = 1]
  /\ UNCHANGED StKeep

\* one turn of the loop of lines 90-97
Patch_Button ==
  /\ stmod.pc \in 1..Len(ButtonNames)
  /\ stmod' =
       IF ButtonNames[stmod.pc] \in stmod.has
       THEN [stmod EXCEPT
               !.cells[Len(stmod.cells)] = stmod.attr[ButtonNames[stmod.pc]],
               !.attr[ButtonNames[stmod.pc]] = WrapBtn(Len(stmod.cells)),
               !.pc = IF stmod.pc = Len(ButtonNames) THEN 0 ELSE stmod.pc + 1]
       ELSE [stmod EXCEPT !.pc = IF stmod.pc = Len(ButtonNames) THEN 0 ELSE stmod.pc + 1]
  /\ UNCHANGED StKeep

\* a page calls st.<name>(**kw) after the patch
Call_Button ==
  \E name \in stmod.has, kw \in SUBSET KwNames :
    /\ stmod.pc = 0
    /\ stmod.cells # <<>>
    /\ stmod' = [stmod EXCEPT
                   !.call = [name |-> name, kw |-> kw,
                             to |-> Forwarded(stmod.attr[name], kw, stmod.cells).to,
                             passed |-> Forwarded(stmod.attr[name], kw, stmod.cells).kw]]
    /\ UNCHANGED StKeep

StNext == Patch_Call \/ Patch_Button \/ Call_Button
SpecSt == StInit /\ [][StNext]_vars

\* C30: a call of st.download_button, st.form_submit_button or st.button
\* after patch_streamlit() reaches the original Streamlit function of that
\* name, with the keywords of the call less width and use_container_width.
C30_OwnOriginal ==
  stmod.call.name # ""
    => /\ stmod.call.to = stmod.call.name
       /\ stmod.call.passed = stmod.call.kw \ {"width", "use_container_width"}

\* ================== offline_store.py: migration_inout_for_iso3 as exported
\* str(c).strip().strip(BOM) and .lower() of a header name
CleanName(c) == StripBom(Strip(c))
LowerCell(c) == [i \in 1..Len(c) |-> LowerName(c[i])]

\* low = {c.lower(): c for c in columns}: the last column of a lower-case name
LowGet(cols, k) ==
  IF \E j \in 1..Len(cols) : LowerCell(cols[j]) = Col(k)
  THEN cols[CHOOSE j \in 1..Len(cols) :
              /\ LowerCell(cols[j]) = Col(k)
              /\ \A i \in (j + 1)..Len(cols) : LowerCell(cols[i]) # Col(k)]
  ELSE NA

\* next((low[k] for k in opts if k in low), None); low.get(a) or low.get(b) ...
RECURSIVE FirstHit(_, _)
FirstHit(cols, opts) ==
  IF opts = <<>> THEN NA
  ELSE IF LowGet(cols, Head(opts)) # NA THEN LowGet(cols, Head(opts))
  ELSE FirstHit(cols, Tail(opts))

\* df.rename(columns={from: to}), nothing when from is None
RenameCol(df, from, to) ==
  IF from = NA THEN df
  ELSE Frame([j \in 1..Len(df.cols) |-> IF df.cols[j] = from THEN to ELSE df.cols[j]], df.rows)

InoutAliases ==
  [iso3 |-> <<"iso3", "country", "pais", "code", "codigo">>,
   year |-> <<"year", "ano", "time">>,
   immigrants |-> <<"immigrants", "imigrantes", "immig">>,
   emigrants |-> <<"emigrants", "emigrantes", "emig">>]

\* lines 689-700: each hit of the aliases renamed to its standard name
AliasRenamed(df) ==
  RenameCol(RenameCol(RenameCol(RenameCol(df,
    FirstHit(df.cols, InoutAliases.iso3), Col("iso3")),
    FirstHit(df.cols, InoutAliases.year), Col("year")),
    FirstHit(df.cols, InoutAliases.immigrants), Col("immigrants")),
    FirstHit(df.cols, InoutAliases.emigrants), Col("emigrants"))

\* lines 706-721: the four columns typed, the rows with a year, by (iso3, year)
InoutTyped(df) ==
  sort_values(
    ReorderToExpected(
      dropna(NumericCols(MapCol(df, Col("iso3"), LAMBDA c : Strip(Upper(AsStr(c)))),
                         <<Col("year"), Col("immigrants"), Col("emigrants")>>),
             Col("year")),
      MigInoutCols),
    <<Col("iso3"), Col("year")>>)

\* the body of load_migration_inout (lines 672-721); the text is decoded as
\* UTF-8 and a byte-order mark in front is dropped
LoadInoutFrame(df) ==
  IF ~df.ok THEN Raise("ParserError")
  ELSE IF ~(SeqToSet(MigInoutCols) \subseteq
            {LowerCell(c) : c \in SeqToSet(AliasRenamed(Frame([j \in 1..Len(df.cols) |-> CleanName(df.cols[j])], df.rows)).cols)})
  THEN Ret(EmptyFrame(MigInoutCols))
  ELSE Ret(InoutTyped(AliasRenamed(Frame([j \in 1..Len(df.cols) |-> CleanName(df.cols[j])], df.rows))))

load_migration_inout(f) ==
  IF ~f.exists THEN Ret(EmptyFrame(MigInoutCols))
  ELSE LoadInoutFrame(pd_read_csv(f, "utf-8-sig", SEMI))

\* _normkey on the names of the model: lower case, marks and punctuation
\* dropped, the UN DESA spellings folded
NormName(t) ==
  CASE t = "Spain" -> "spain" [] t = "Espanha" -> "espanha" [] t = "France" -> "france"
    [] t = "Franca" -> "franca" [] t = "France (metropolitan)" -> "france metropolitan"
    [] t = "Viet Nam" -> "vietnam" [] t = "nan" -> "nan"
    [] OTHER -> t
_normkey(cell) == IF cell = NA THEN "" ELSE NormName(cell[1])

\* str.startswith on the keys of the model
StartsWith(k, prefix) ==
  \/ prefix = ""
  \/ k = prefix
  \/ k = "france metropolitan" /\ prefix = "france"

CellAt(df, r, col) == r[IndexOf(df.cols, col)]

\* lines 797-806: the normalised name_pt, name_en and name of the seed row
SeedNames(seed, iso) ==
  {_normkey(CellAt(seed, SelectSeq(seed.rows, LAMBDA r : Upper(AsStr(CellAt(seed, r, Col("iso3")))) = iso)[1], c)) :
     c \in {c \in {Col("name_pt"), Col("name_en"), Col("name")} :
              /\ c \in SeqToSet(seed.cols)
              /\ Strip(CellAt(seed, SelectSeq(seed.rows, LAMBDA r : Upper(AsStr(CellAt(seed, r, Col("iso3")))) = iso)[1], c)) # NA}}

\* lines 809-810: the four columns under their standard names
M49Renamed(m49) ==
  RenameCol(RenameCol(RenameCol(RenameCol(m49,
    FirstHit(m49.cols, <<"country", "pais", "name">>), Col("country")),
    FirstHit(m49.cols, <<"year", "ano">>), Col("year")),
    FirstHit(m49.cols, <<"immigrants", "imigrantes">>), Col("immigrants")),
    FirstHit(m49.cols, <<"emigrants", "emigrantes">>), Col("emigrants"))

\* lines 811-815: the rows of a seed name, else those that start with key
M49Matched(m49, names, key) ==
  IF SelectSeq(m49.rows, LAMBDA r : _normkey(AsStr(CellAt(m49, r, Col("country")))) \in names) # <<>>
  THEN SelectSeq(m49.rows, LAMBDA r : _normkey(AsStr(CellAt(m49, r, Col("country")))) \in names)
  ELSE SelectSeq(m49.rows, LAMBDA r : StartsWith(_normkey(AsStr(CellAt(m49, r, Col("country")))), key))

\* lines 820-831: typed, the rows with a year, by year, iso3 in front
M49Series(m49, rows, iso, tie) ==
  LET typed == sort_quick(
                 ReorderToExpected(
                   dropna(NumericCols(Frame(m49.cols, rows),
                                      <<Col("year"), Col("immigrants"), Col("emigrants")>>),
                          Col("year")),
                   <<Col("year"), Col("immigrants"), Col("emigrants")>>),
                 Col("year"), tie)
  IN Frame(<<Col("iso3")>> \o typed.cols,
           [i \in 1..Len(typed.rows) |-> <<iso>> \o typed.rows[i]])

\* lines 775-831, the second step of the function defined at line 762; key
\* is next(iter(names)), any of the names ("" when there is none)
M49Fallback(m49f, seedf, iso, tie, key) ==
  IF ~m49f.exists \/ IsEmpty(_read_csv_safe_any(m49f).frame)
  THEN Ret(EmptyFrame(MigInoutCols))
  ELSE IF FirstHit(_read_csv_safe_any(m49f).frame.cols, <<"country", "pais", "name">>) = NA
  THEN Ret(EmptyFrame(MigInoutCols))
  ELSE IF \/ IsEmpty(_read_csv_safe_any(seedf).frame)
          \/ Col("iso3") \notin SeqToSet(_read_csv_safe_any(seedf).frame.cols)
  THEN Ret(EmptyFrame(MigInoutCols))
  ELSE IF SelectSeq(_read_csv_safe_any(seedf).frame.rows,
                    LAMBDA r : Upper(AsStr(CellAt(_read_csv_safe_any(seedf).frame, r, Col("iso3")))) = iso) = <<>>
  THEN Ret(EmptyFrame(MigInoutCols))
  ELSE IF M49Matched(M49Renamed(_read_csv_safe_any(m49f).frame),
                     SeedNames(_read_csv_safe_any(seedf).frame, iso), key) = <<>>
  THEN Ret(EmptyFrame(MigInoutCols))
  ELSE IF ~({Col("year"), Col("immigrants"), Col("emigrants")}
            \subseteq SeqToSet(M49Renamed(_read_csv_safe_any(m49f).frame).cols))
  THEN Raise("KeyError")
  ELSE Ret(M49Series(M49Renamed(_read_csv_safe_any(m49f).frame),
                     M49Matched(M49Renamed(_read_csv_safe_any(m49f).frame),
                                SeedNames(_read_csv_safe_any(seedf).frame, iso), key),
                     iso, tie))

\* the keys next(iter(names)) may give
FallbackKeys(seedf, iso) ==
  IF \/ IsEmpty(_read_csv_safe_any(seedf).frame)
     \/ Col("iso3") \notin SeqToSet(_read_csv_safe_any(seedf).frame.cols)
     \/ SelectSeq(_read_csv_safe_any(seedf).frame.rows,
                  LAMBDA r : Upper(AsStr(CellAt(_read_csv_safe_any(seedf).frame, r, Col("iso3")))) = iso) = <<>>
     \/ SeedNames(_read_csv_safe_any(seedf).frame, iso) = {}
  THEN {""}
  ELSE SeedNames(_read_csv_safe_any(seedf).frame, iso)

\* the function defined at line 762: all is what load_migration_inout()
\* returned (its lru_cache of one entry holds the first frame it built)
offline_migration_inout_for_iso3(all, m49f, seedf, iso3, tie, key) ==
  IF all.raised THEN all
  ELSE IF WhereEq(all.frame, Col("iso3"), Upper(iso3)).rows # <<>>
  THEN Ret(sort_quick(WhereEq(all.frame, Col("iso3"), Upper(iso3)), Col("year"), tie))
  ELSE M49Fallback(m49f, seedf, Upper(iso3), tie, key)

\* ---- the files of the fallback
M49Head == <<Col("m49"), Col("country"), Col("year"), Col("immigrants"), Col("emigrants")>>
M49Code(country) ==
  CASE country = "Spain" -> "724" [] country = "France" -> "250"
    [] country = "France (metropolitan)" -> "250"
M49Countries == {"Spain", "France", "France (metropolitan)"}
MaxM49Rows == 2
M49Tables ==
  {[cols |-> M49Head,
    rows |-> [i \in 1..Len(cs) |->
                <<Col(M49Code(cs[i])), Col(cs[i]), Col(AYear(i)), Col(Counts[i]), Col("100")>>]] :
     cs \in UNION {[1..n -> M49Countries] : n \in 0..MaxM49Rows}}

SeedHead == <<Col("iso3"), Col("name_pt"), Col("name_en")>>
SeedTables ==
  {[cols |-> SeedHead, rows |-> rs] :
     rs \in {<<>>,
             <<(<<Col("ESP"), Col("Espanha"), Col("Spain")>>)>>,
             <<(<<Col("ESP"), Col("Espanha"), Col("Spain")>>),
               (<<Col("FRA"), Col("Franca"), Col("France")>>)>>}}

\* fetch_migration_inout writes the M49 file with ';'; the seed has ','
M49File(t) == StatFile(to_csv(t, SEMI), 1)
SeedFile(t) == StatFile(to_csv(t, COMMA), 1)

\* ---- the import of the module, statement by statement
ExpKeep == <<rvars, fvars, mvars, pvars, avars, xvars, req, box, web, crawl, stmod>>

ExpInit ==
  /\ exported \in {[pc |-> "762", migration_inout_for_iso3 |-> 0,
                    load_migration_inout_for_iso3 |-> 0, m49 |-> t, seed |-> s,
                    memo |-> <<>>] : t \in M49Tables, s \in SeedTables}
  /\ stmod = NoSt
  /\ req = NoReq
  /\ box = NoBox
  /\ web = NoWeb
  /\ crawl = NoCrawl
  /\ path = MIG_INOUT
  /\ quick \in {"stable", "reversed"}
  /\ acalls = <<>>
  /\ disk = Missing
  /\ dsrc = <<>>
  /\ clock = 0
  /\ lru = <<>>
  /\ stc = {}
  /\ seen = {}
  /\ ncalls = 0
  /\ fcall = NoFCall
  /\ rfile = NoFile
  /\ rsrc = NoSrc
  /\ rcall = NoCall
  /\ XIdle
  /\ MIdle

\* line 762: def migration_inout_for_iso3
Import_762 ==
  /\ exported.pc = "762"
  /\ exported' = [exported EXCEPT !.migration_inout_for_iso3 = 762, !.pc = "879"]
  /\ UNCHANGED ExpKeep

\* lines 878-879: @st.cache_data def load_migration_inout_for_iso3
Import_879 ==
  /\ exported.pc = "879"
  /\ exported' = [exported EXCEPT !.load_migration_inout_for_iso3 = 879, !.pc = "949"]
  /\ UNCHANGED ExpKeep

\* lines 948-955: the name is looked up, and defined when that raises NameError
Import_949 ==
  /\ exported.pc = "949"
  /\ exported' = [exported EXCEPT
                    !.load_migration_inout_for_iso3 = IF @ = 0 THEN 955 ELSE @,
                    !.pc = "972"]
  /\ UNCHANGED ExpKeep

\* line 972: migration_inout_for_iso3 = load_migration_inout_for_iso3
Import_972 ==
  /\ exported.pc = "972"
  /\ exported' = [exported EXCEPT
                    !.migration_inout_for_iso3 = exported.load_migration_inout_for_iso3,
                    !.pc = "imported"]
  /\ UNCHANGED ExpKeep

\* load_migration_inout() under lru_cache(maxsize=1), called without arguments
MemoAll(memo, f) == IF memo # <<>> THEN memo[1] ELSE load_migration_inout(f)

\* a page calls offline_store.migration_inout_for_iso3(t): the function the
\* name is bound to runs
Export_Call ==
  \E t \in Targets :
    /\ exported.pc = "imported"
    /\ IF exported.migration_inout_for_iso3 = 762
       THEN \E key \in FallbackKeys(SeedFile(exported.seed), Upper(t)) :
              /\ Direct("offline_store.migration_inout_for_iso3", t,
                        offline_migration_inout_for_iso3(
                          MemoAll(exported.memo, disk), M49File(exported.m49),
                          SeedFile(exported.seed), t, quick, key))
              /\ exported' = [exported EXCEPT
                                !.memo = IF MemoAll(@, disk).raised THEN @
                                         ELSE <<MemoAll(@, disk)>>]
       ELSE /\ Cached("offline_store.migration_inout_for_iso3", t,
                      Memo(stc, <<"load_migration_inout_for_iso3", t>>,
                           load_migration_inout_for_iso3(disk, t, quick)),
                      Memo(stc, <<"load_migration_inout_for_iso3", t>>,
                           load_migration_inout_for_iso3(disk, t, quick)).res)
            /\ exported' = exported

ExpNext ==
  \/ Import_762
  \/ Import_879
  \/ Import_949
  \/ Import_972
  \/ AccessWrite
  \/ Export_Call

SpecExport == ExpInit /\ [][ExpNext]_vars

\* ---- what is claimed of the exported name
ExportedCall == fcall.fn = "offline_store.migration_inout_for_iso3"
Asked == Upper(fcall.a.iso3)

\* the file has a row of the country
HasDirect == \E n \in 1..Len(fcall.isos) : Col(UpperTok(fcall.isos[n])) = Asked

\* the seed names of the country, and the rows of the M49 table under one of
\* them as rows of the series
SeedNamesOf(seed, iso) ==
  UNION {{NormName(seed.rows[n][2][1]), NormName(seed.rows[n][3][1])} :
           n \in {n \in 1..Len(seed.rows) : seed.rows[n][1] = iso}}
Rebuilt(m49, seed, iso) ==
  [n \in 1..Len(SelectSeq(m49.rows, LAMBDA r : NormName(r[2][1]) \in SeedNamesOf(seed, iso))) |->
     <<iso>> \o Tail(Tail(SelectSeq(m49.rows,
                                    LAMBDA r : NormName(r[2][1]) \in SeedNamesOf(seed, iso))[n]))]

\* C27: a call of migration_inout_for_iso3 through the name offline_store
\* exports returns the rows of the country in migration_inout.csv when the
\* file has any, and otherwise the rows of migration_inout_m49.csv under a
\* seed name of the country; the frame is empty only when both have none.
C27_ExportedFallsBack ==
  ExportedCall
    => /\ ~fcall.res.raised
       /\ IF HasDirect
          THEN /\ fcall.res.frame.rows # <<>>
               /\ \A n \in 1..Len(fcall.res.frame.rows) : fcall.res.frame.rows[n][1] = Asked
          ELSE SameRows(fcall.res.frame.rows, Rebuilt(exported.m49, exported.seed, Asked))

====
